---- MODULE Spec2Model ----
(***************************************************************************)
(* Trender: GitHub trending analytics pipeline.                            *)
(*                                                                         *)
(* Part 1  batch analysis orchestrator (workflows/workflow.py):            *)
(*         analyze_repo_batch, analyze_single_repo, store_in_staging.      *)
(* Part 2  staging upsert under arbitrary write sequences.                 *)
(* Part 3  API client (workflows/github_api.py): _api_call with its        *)
(*         rate-limit gate, retry loop and status dispatch, and the        *)
(*         callers search_repositories and get_file_contents.              *)
(*                                                                         *)
(* Part 4  Load (workflow.py load_to_analytics_simple) into the analytics  *)
(*         tables.                                                         *)
(* Part 5  scoring functions: data-quality scores, recency score.          *)
(* Part 6  transform_and_rank (workflows/etl/transform.py).                *)
(* Part 7  usage detector (workflows/render_detection.py).                 *)
(* Part 8  init_connections and cleanup_connections                        *)
(*         (workflows/connections.py).                                     *)
(* Part 9  main_analysis_task and its top-level fetch tasks.               *)
(* Part 10 the extraction query of aggregate_results, feeding Part 4.      *)
(* Part 11 GitHubAPIClient.search_repos_by_path.                           *)
(* Part 12 load_to_analytics of the etl package (workflows/etl/load.py).   *)
(*                                                                         *)
(* Specifications: Spec (orchestrator), SpecStaging, SpecApi, SpecApiLive, *)
(* SpecLoad, SpecScore, SpecRank, SpecDetect, SpecConn, SpecRun,           *)
(* SpecExtract, SpecSearch, SpecApiShared (two calls on one client),       *)
(* SpecEtlLoad (etl/load.py load_to_analytics).                            *)
(***************************************************************************)
EXTENDS Integers, Sequences, FiniteSets, TLC

VARIABLES
    \* ---- orchestrator ----
    repos,            \* analyze_repo_batch argument: the candidate list
    readme_contents,  \* full names that come with a pre-fetched README
    bpc,              \* position of analyze_repo_batch
    batch_idx,        \* index of the chunk the for loop is at (1-based)
    pc,               \* pc[i]: state of the analysis task of repos[i]
    det,              \* det[i]: position of detect_render_usage in task i
    rd,               \* rd[i]: position of fetch_readme in task i
    enriched,         \* enriched[i]: the enriched record task i built
    staged,           \* staged[i]: the INSERT of store_in_staging of task i
                      \* has been executed
    store_pc,         \* store_pc[i]: the release of the pool connection
                      \* task i awaits at the end of an 'async with' block
    enriched_repos,   \* the list analyze_repo_batch accumulates (returned
                      \* unless an exception leaves the call)
    settle_order,     \* history: the tasks in the order they settled
    batch_raised,     \* the exception that left analyze_repo_batch, or None
    \* ---- relational store ----
    staging,          \* rows of stg_repos_validated
    enrichment,       \* rows of stg_render_enrichment
    \* ---- staging write history (SpecStaging) ----
    writes,           \* number of store_in_staging calls so far
    lastRec,          \* record of the latest call
    prevRec,          \* record of the call before it
    prevStaging,      \* stg_repos_validated before the latest call
    latest,           \* latest[name]: latest record written for name
    first,            \* first[name]: first record written for name
    \* ---- API client (SpecApi) ----
    rate_limit_remaining,  \* GitHubAPIClient.rate_limit_remaining
    rate_limit_reset,      \* GitHubAPIClient.rate_limit_reset
    api_pc,           \* position of _api_call: idle, gate_sleep, request,
                      \* body (response.text() / .json() awaited), backoff
    caller,           \* the public method that made the current call
    attempt,          \* loop variable of the retry loop
    wake,             \* time the pending asyncio.sleep ends
    calls,            \* number of calls started
    requests,         \* HTTP requests the current call has issued
    outcomes,         \* outcome of each request of the current call
    sleeps,           \* backoff sleeps of the current call, in seconds
    start,            \* time and rate-limit state at the start of the call
    firstReqAt,       \* time the first request of the call was issued
    result,           \* value _api_call returned
    raised,           \* an exception left _api_call
    ret,              \* value the public method returned
    peer_pc,          \* position of a concurrent _api_call on the same client
    peer_wake,        \* time the sleep of its rate-limit check ends
    peer_calls,       \* number of concurrent calls started
    \* ---- analytics tables (SpecLoad) ----
    dim_repositories,     \* rows of dim_repositories
    fact_repo_snapshots,  \* rows of fact_repo_snapshots
    fact_render_usage,    \* rows of fact_render_usage
    repo_key_seq,         \* next value of the repo_key serial
    \* ---- load_to_analytics_simple ----
    load_pc,          \* position of load_to_analytics_simple: idle, loop
    load_rows,        \* its argument: the rows extracted from staging
    load_idx,         \* idx of enumerate(repos, 1)
    load_today,       \* date.today() of the execution
    load_part,        \* 0: the execution runs in the morning, 1: afternoon
    loads,            \* number of executions started
    \* ---- load history ----
    load_attempted,   \* idx of the rows the loop has attempted
    load_failed,      \* idx of the rows whose load raised
    load_raised,      \* an exception left load_to_analytics_simple
    load_skipped,     \* idx of the rows skipped for a missing key
    load_nokey,       \* (idx, service type) without service-dimension entry
    load_wrote,       \* idx of the rows whose fact upsert has run
    factsBefore,      \* fact_repo_snapshots when the execution started
    prevLoad,         \* rows, date and written rows of the previous execution
    latestFact,       \* latestFact[name]: fact values last written for name
    load_last,        \* the last loop iteration: its idx, how and where it ended
    \* ---- pure functions (SpecScore, SpecRank, SpecDetect, SpecSearch) ----
    q_repo,           \* argument of the scoring functions
    q_out,            \* their results
    r_in,             \* argument of transform_and_rank
    r_out,            \* its result
    d_in,             \* candidate and fetch outcomes of detect_render_usage
    d_out,            \* its result
    s_in,             \* arguments and API answers of search_repos_by_path
    s_out,            \* its result
    \* ---- init_connections and its caller ----
    ic_calls,         \* init_connections calls the run has made
    ic_pc,            \* position: idle, pool, test, sleep, returned, raised,
                      \* cleanup, closed, cleanup_raised
    ic_env,           \* environment and client construction of this call
    ic_attempt,       \* loop variable of the pool retry loop
    ic_outcomes,      \* outcome of each pool creation attempt
    ic_sleeps,        \* backoff sleeps of this call, in seconds
    ic_error,         \* exception that left init_connections
    session_open,     \* API client sessions opened and not closed
    pools_open,       \* connection pools opened and not closed
    handles,          \* the caller holds (github_api, db_pool)
    ic_peer,          \* position of another fetch task's call, under way at
                      \* the same time
    \* ---- main_analysis_task (SpecRun) ----
    run_mode,         \* "dev" or "prod" (DEV_MODE)
    run_pc,           \* position of main_analysis_task
    tpc,              \* tpc[t]: position of the top-level fetch task t
    readme_inflight,  \* readme_inflight[t]: fetch_readme calls in flight
    run_summary,      \* the record main_analysis_task returned
    run_error,        \* exception that left main_analysis_task
    run_cause,        \* the failure that exception came from
    \* ---- clock ----
    now               \* current time (seconds in SpecApi, ticks elsewhere)

batchVars == <<repos, readme_contents, bpc, batch_idx, pc, det, rd, enriched,
               staged, store_pc, enriched_repos, batch_raised, settle_order>>
storeVars == <<staging, enrichment>>
histVars  == <<writes, lastRec, prevRec, prevStaging, latest, first>>
peerVars  == <<peer_pc, peer_wake, peer_calls>>
apiVars   == <<rate_limit_remaining, rate_limit_reset, api_pc, caller, attempt,
               wake, calls, requests, outcomes, sleeps, start, firstReqAt,
               result, raised, ret, peerVars>>
tableVars == <<dim_repositories, fact_repo_snapshots, fact_render_usage,
               repo_key_seq>>
loadVars  == <<load_pc, load_rows, load_idx, load_today, load_part, loads,
               load_attempted, load_failed, load_raised, load_skipped,
               load_nokey, load_wrote, factsBefore, prevLoad, latestFact,
               load_last>>
fnVars    == <<q_repo, q_out, r_in, r_out, d_in, d_out, s_in, s_out>>
etlVars   == <<tableVars, loadVars, fnVars>>
runVars   == <<ic_calls, ic_pc, ic_env, ic_attempt, ic_outcomes, ic_sleeps, ic_error,
               session_open, pools_open, handles, ic_peer,
               run_mode, run_pc, tpc, readme_inflight, run_summary,
               run_error, run_cause>>
\* the part of runVars that belongs to main_analysis_task
mainVars  == <<run_mode, run_pc, tpc, readme_inflight, run_summary, run_error,
               run_cause>>
vars == <<batchVars, storeVars, histVars, apiVars, etlVars, runVars, now>>

----------------------------------------------------------------------------
(* Values *)

\* Python None for string-valued fields
None == "None"
\* what github_api.close() or db_pool.close() raises when it fails
CloseError == "OSError"
\* an exception a task of gather raised, re-raised by the gather
TaskException == "Exception"

\* Timestamps: absent, an ISO-8601 string for day `day`, or a string that is
\* not ISO-8601.  datetime objects are the "iso" values.
NoDate  == [kind |-> "none", day |-> 0]
BadDate == [kind |-> "bad", day |-> 0]
Iso(d)  == [kind |-> "iso", day |-> d]

\* the day the run happens (datetime.utcnow())
Today == 100

\* bounds
ChunkSize == 2
MaxRepos  == 3

Min(a, b) == IF a < b THEN a ELSE b
Max(a, b) == IF a > b THEN a ELSE b

\* Python truthiness, per type
TruthyStr(s)  == s # None /\ s # ""
TruthySeq(s)  == Len(s) > 0
TruthyInt(n)  == n # 0
TruthyDate(d) == d.kind # "none"
B2N(b) == IF b THEN 1 ELSE 0

----------------------------------------------------------------------------
(* Candidates.  full_name is the sequence of its characters; <<>> stands   *)
(* for a missing (None or empty) full name.                                *)

Cand(fn, lang, desc, stars, created, updated) ==
    [full_name |-> fn, html_url |-> "url", language |-> lang,
     description |-> desc, stargazers_count |-> stars,
     created_at |-> created, updated_at |-> updated]

RepoA       == Cand(<<"o", "/", "a">>, "Go", "desc", 120, Iso(60), Iso(99))
RepoNoLang  == Cand(<<"o", "/", "c">>, None, None, 7, Iso(10), Iso(95))
RepoB       == Cand(<<"o", "/", "b">>, "Python", None, 30, Iso(80), Iso(90))
RepoNoSlash == Cand(<<"x">>, "Go", None, 5, Iso(80), Iso(90))
RepoNoDates == Cand(<<"o", "/", "d">>, "Rust", "desc", 9, NoDate, NoDate)
RepoBadDate == Cand(<<"o", "/", "e">>, "Go", None, 3, BadDate, Iso(99))
RepoNoName  == Cand(<<>>, "Go", None, 1, Iso(80), Iso(90))

CandidatePool == <<RepoA, RepoNoLang, RepoB, RepoNoSlash, RepoNoDates,
                   RepoBadDate, RepoNoName>>

\* the candidate lists of a run: the cyclic windows of the pool
Window(s) == [k \in 1..MaxRepos |->
                 CandidatePool[((s + k - 2) % Len(CandidatePool)) + 1]]
CandidateLists == {Window(s) : s \in 1..Len(CandidatePool)}

Names(rs) == {rs[i].full_name : i \in DOMAIN rs}
\* the README maps a caller passes: none, all, or the first candidate's only
ReadmeMaps(rs) == {{}, Names(rs) \ {<<>>}, {rs[1].full_name} \ {<<>>}}

----------------------------------------------------------------------------
(* Data-quality score (workflows/etl/data_quality.py).  Scores are exact   *)
(* integers: completeness in 1/300, freshness and validity in 1/10, the    *)
(* total in 1/100 (the two decimals round() keeps).                        *)

HasInt(repo, f) == f \in DOMAIN repo /\ TruthyInt(repo[f])

\* 70% for the six required fields, 30% for the five optional ones
calculate_completeness_score(repo) ==
    LET required_present ==
            B2N(TruthySeq(repo.repo_full_name)) + B2N(TruthyStr(repo.repo_url))
          + B2N(TruthyStr(repo.language)) + B2N(HasInt(repo, "stars"))
          + B2N(TruthyDate(repo.created_at)) + B2N(TruthyDate(repo.updated_at))
        optional_present ==
            B2N(TruthyStr(repo.description)) + B2N(HasInt(repo, "forks"))
          + B2N(HasInt(repo, "open_issues"))
          + B2N(HasInt(repo, "commits_last_7_days"))
          + B2N(HasInt(repo, "active_contributors"))
    IN  35 * required_present + 18 * optional_present

\* variant: every bucket excludes its upper bound
calculate_freshness_exclusive(repo, today) ==
    LET updated_at == repo.updated_at
        days_since_update == today - updated_at.day
    IN  IF ~TruthyDate(updated_at) THEN 5
        ELSE IF updated_at.kind = "bad" THEN 5
        ELSE IF days_since_update < 1 THEN 10
        ELSE IF days_since_update < 7 THEN 9
        ELSE IF days_since_update < 30 THEN 7
        ELSE IF days_since_update < 90 THEN 5
        ELSE 3

calculate_freshness_score(repo, today) ==
    LET updated_at == repo.updated_at
        days_since_update == today - updated_at.day
    IN  IF ~TruthyDate(updated_at) THEN 5
        ELSE IF updated_at.kind = "bad" THEN 5
        ELSE IF days_since_update <= 1 THEN 10
        ELSE IF days_since_update <= 7 THEN 9
        ELSE IF days_since_update <= 30 THEN 7
        ELSE IF days_since_update <= 90 THEN 5
        ELSE 3

valid_languages == {"Python", "TypeScript", "JavaScript", "Go", "Java",
                    "C++", "C", "Ruby", "PHP", "C#", "Rust", "Swift"}

\* variant: the language is not examined
calculate_validity_no_language(repo) ==
    LET stars == IF "stars" \in DOMAIN repo THEN repo.stars ELSE 0
        forks == IF "forks" \in DOMAIN repo THEN repo.forks ELSE 0
        p_stars == IF stars < 0 THEN 3 ELSE 0
        p_forks == IF forks < 0 THEN 2
                   ELSE IF stars > 0 /\ forks > stars * 2 THEN 1 ELSE 0
        p_dates == IF repo.created_at.kind = "iso"
                      /\ repo.updated_at.kind = "iso"
                      /\ repo.created_at.day > repo.updated_at.day
                   THEN 2 ELSE 0
    IN  Max(0, 10 - p_stars - p_forks - p_dates)

calculate_validity_score(repo) ==
    LET stars == IF "stars" \in DOMAIN repo THEN repo.stars ELSE 0
        forks == IF "forks" \in DOMAIN repo THEN repo.forks ELSE 0
        created_at == repo.created_at
        updated_at == repo.updated_at
        p_stars == IF stars < 0 THEN 3 ELSE 0
        p_forks == IF forks < 0 THEN 2
                   ELSE IF stars > 0 /\ forks > stars * 2 THEN 1 ELSE 0
        p_dates == IF created_at.kind = "iso" /\ updated_at.kind = "iso"
                      /\ created_at.day > updated_at.day THEN 2 ELSE 0
        p_lang  == IF ~TruthyStr(repo.language)
                      \/ repo.language \notin valid_languages THEN 1 ELSE 0
    IN  Max(0, 10 - p_stars - p_forks - p_dates - p_lang)

\* variant: the three components are added without their weights
quality_score_unweighted(repo, today) ==
    (calculate_completeness_score(repo)
       + 30 * calculate_freshness_score(repo, today)
       + 30 * calculate_validity_score(repo)) \div 3

\* round(0.4*completeness + 0.3*freshness + 0.3*validity, 2), in hundredths.
\* In 1/3000 the total is an even number, so no rounding tie occurs.
calculate_data_quality_score(repo, today) ==
    LET total3000 == 4 * calculate_completeness_score(repo)
                   + 90 * calculate_freshness_score(repo, today)
                   + 90 * calculate_validity_score(repo)
    IN  (total3000 + 15) \div 30

----------------------------------------------------------------------------
(* stg_repos_validated: INSERT ... ON CONFLICT (repo_full_name) DO UPDATE  *)

RowOf(repo, t) ==
    [repo_full_name |-> repo.repo_full_name, repo_url |-> repo.repo_url,
     language |-> repo.language, description |-> repo.description,
     stars |-> repo.stars, created_at |-> repo.created_at,
     updated_at |-> repo.updated_at, uses_render |-> repo.uses_render,
     readme_content |-> repo.readme_content,
     data_quality_score |-> repo.data_quality_score, loaded_at |-> t]

OnConflictDoNothing(old, repo, t) == old
\* the SET list of the DO UPDATE clause
OnConflictUpdate(old, repo, t) ==
    [old EXCEPT !.stars = repo.stars,
                !.updated_at = repo.updated_at,
                !.uses_render = repo.uses_render,
                !.readme_content = repo.readme_content,
                !.data_quality_score = repo.data_quality_score,
                !.loaded_at = t]

\* the enriched_project dict of analyze_single_repo
EnrichedProject(fn, category, services, blueprint, complexity, count) ==
    [repo_full_name |-> fn, render_category |-> category,
     render_services |-> services, has_blueprint_button |-> blueprint,
     render_complexity_score |-> complexity, service_count |-> count]
\* store_render_enrichment for one project: INSERT INTO stg_render_enrichment
\* ... ON CONFLICT (repo_full_name) DO UPDATE SET every other column
store_render_enrichment(rows, project, t) ==
    IF ~TruthySeq(project.repo_full_name) THEN rows
    ELSE {r \in rows : r.repo_full_name # project.repo_full_name}
         \cup {project @@ [loaded_at |-> t]}

store_in_staging(rows, repo, t) ==
    LET conflict == {r \in rows : r.repo_full_name = repo.repo_full_name}
    IN  IF conflict = {} THEN rows \cup {RowOf(repo, t)}
        ELSE (rows \ conflict)
             \cup {OnConflictUpdate(old, repo, t) : old \in conflict}

----------------------------------------------------------------------------
(* Part 1: analyze_repo_batch and analyze_single_repo                      *)

Tasks == DOMAIN repos
Indices(rs) == [i \in 1..Len(rs) |-> i]

\* [items[i:i + size] for i in range(0, len(items), size)]
chunk_list_whole(items, size) == IF Len(items) = 0 THEN <<>> ELSE <<items>>
chunk_list(items, size) ==
    [k \in 1..((Len(items) + size - 1) \div size) |->
        SubSeq(items, (k - 1) * size + 1, Min(k * size, Len(items)))]

\* the chunks of the run, as the positions of their candidates in repos
Chunks == chunk_list(Indices(repos), ChunkSize)
ChunkOf(i) == LET chunks == Chunks
              IN  CHOOSE k \in DOMAIN chunks :
                      \E j \in DOMAIN chunks[k] : chunks[k][j] = i
Range(f) == {f[x] : x \in DOMAIN f}

Terminal == {"done", "skipped", "failed"}
Settled(i) == pc[i] \in Terminal
Running(i) == pc[i] \notin Terminal \cup {"pending"}

\* not repo_full_name or '/' not in repo_full_name
InvalidFullName(fn) == ~TruthySeq(fn) \/ ~(\E k \in DOMAIN fn : fn[k] = "/")

\* readme_contents.get(repo.get('full_name'))
ReadmeSupplied(repo) == repo.full_name \in readme_contents

\* analyze_single_repo up to its first await: the state the task is left in
FirstStep(repo) ==
    IF InvalidFullName(repo.full_name) THEN "skipped" ELSE "fetching"
FirstDet(repo) ==
    IF InvalidFullName(repo.full_name) THEN "idle" ELSE "yaml"
FirstRd(repo) ==
    IF InvalidFullName(repo.full_name) THEN "idle"
    ELSE IF ReadmeSupplied(repo) THEN "supplied" ELSE "list"

DetSettled == {"absent", "found"}
\* positions of detect_render_usage with a file request under way; at
\* "docker_unhashable" the render.yaml fetched declares a service whose
\* type is a list or a mapping
DetFetching == {"yaml", "docker", "docker_unhashable"}
RdSettled  == {"supplied", "none", "text"}
\* outbound requests of task i in flight
InFlightOf(i) == IF pc[i] # "fetching" THEN 0
                 ELSE B2N(det[i] \in DetFetching)
                    + B2N(rd[i] \in {"list", "download"})
RECURSIVE SumOver(_, _)
SumOver(S, f) == IF S = {} THEN 0
                 ELSE LET x == CHOOSE y \in S : TRUE
                      IN  f[x] + SumOver(S \ {x}, f)
InFlight == SumOver(Tasks, [i \in Tasks |-> InFlightOf(i)])

\* variant: the await returns when the detection has settled
AfterFetchDetectionOnly(d, r) ==
    IF d \in DetSettled THEN "scoring" ELSE "fetching"
\* the await of both fetches returns once both have settled
AfterFetch(d, r) ==
    IF d \in DetSettled /\ r \in RdSettled THEN "scoring" ELSE "fetching"

\* datetime.fromisoformat raises ValueError on a string that is not ISO-8601
ParseRaises(repo) == repo.created_at.kind = "bad" \/ repo.updated_at.kind = "bad"
ScoreOutcomeSkip(repo) == IF ParseRaises(repo) THEN "skipped" ELSE "persisting"
ScoreOutcome(repo) == IF ParseRaises(repo) THEN "failed" ELSE "persisting"

\* the enriched dict with its data_quality_score
BuildEnriched(repo, render_uses, readme) ==
    LET e == [repo_full_name |-> repo.full_name, repo_url |-> repo.html_url,
              language |-> repo.language, description |-> repo.description,
              readme_content |-> readme, stars |-> repo.stargazers_count,
              created_at |-> repo.created_at, updated_at |-> repo.updated_at,
              uses_render |-> render_uses]
    IN  e @@ [data_quality_score |-> calculate_data_quality_score(e, Today)]

Summary(i) == [repo_full_name |-> enriched[i].repo_full_name,
               language |-> enriched[i].language,
               stars |-> enriched[i].stars]
NoneResult == [repo_full_name |-> <<>>, language |-> None, stars |-> 0]

\* asyncio.gather(*batch_tasks, return_exceptions=True) returns when every
\* task of the chunk has returned or raised
ReturnExceptionsOff == FALSE
ReturnExceptions == TRUE
GatherRaises(chunk) ==
    ~ReturnExceptions /\ \E i \in Range(chunk) : pc[i] = "failed"
GatherFirstCompleted(chunk) == \E i \in Range(chunk) : Settled(i)
GatherComplete(chunk) == \A i \in Range(chunk) : Settled(i)

\* the loop over batch_results: exceptions are logged, None is dropped
RECURSIVE CollectKeepNone(_, _)
CollectKeepNone(acc, chunk) ==
    IF chunk = <<>> THEN acc
    ELSE LET i == Head(chunk)
         IN  CollectKeepNone(
                 IF pc[i] = "done" THEN Append(acc, Summary(i))
                 ELSE IF pc[i] = "failed" THEN acc
                 ELSE Append(acc, NoneResult),
                 Tail(chunk))
\* variant: the results are taken in the order the tasks completed
RECURSIVE CollectInOrder(_, _)
CollectInOrder(acc, order) ==
    IF order = <<>> THEN acc
    ELSE LET i == Head(order)
         IN  CollectInOrder(IF pc[i] = "done" THEN Append(acc, Summary(i))
                            ELSE acc,
                            Tail(order))
CollectAsCompleted(acc, chunk) ==
    CollectInOrder(acc, SelectSeq(settle_order,
                                  LAMBDA i : i \in Range(chunk)))
\* for i, result in enumerate(batch_results): the results are in the order
\* of batch_tasks, which is the order of the chunk
RECURSIVE CollectResults(_, _)
CollectResults(acc, chunk) ==
    IF chunk = <<>> THEN acc
    ELSE LET i == Head(chunk)
         IN  CollectResults(
                 IF pc[i] = "failed" THEN acc
                 ELSE IF pc[i] = "done" THEN Append(acc, Summary(i))
                 ELSE acc,
                 Tail(chunk))

\* GitHubAPIClient.__init__
NoReset == -1
DefaultRemaining == 5000
InitClient ==
    /\ rate_limit_remaining = DefaultRemaining
    /\ rate_limit_reset = NoReset
    /\ api_pc = "idle"
    /\ caller = None
    /\ attempt = 0
    /\ wake = 0
    /\ calls = 0
    /\ requests = 0
    /\ outcomes = <<>>
    /\ sleeps = <<>>
    /\ start = [at |-> 0, remaining |-> DefaultRemaining, reset |-> NoReset]
    /\ firstReqAt = 0
    /\ result = None
    /\ raised = FALSE
    /\ ret = None
    /\ peer_pc = "idle"
    /\ peer_wake = 0
    /\ peer_calls = 0

InitBatch(rs, rc) ==
    /\ repos = rs
    /\ readme_contents = rc
    /\ bpc = "start"
    /\ batch_idx = 1
    /\ pc = [i \in DOMAIN rs |-> "pending"]
    /\ det = [i \in DOMAIN rs |-> "idle"]
    /\ rd = [i \in DOMAIN rs |-> "idle"]
    /\ enriched = <<>>
    /\ staged = [i \in DOMAIN rs |-> FALSE]
    /\ store_pc = [i \in DOMAIN rs |-> "idle"]
    /\ enriched_repos = <<>>
    /\ batch_raised = None
    /\ settle_order = <<>>

InitStore ==
    /\ staging = {}
    /\ enrichment = {}

InitHist ==
    /\ writes = 0
    /\ lastRec = <<>>
    /\ prevRec = <<>>
    /\ prevStaging = {}
    /\ latest = <<>>
    /\ first = <<>>

\* the analytics tables before the first load
InitTables ==
    /\ dim_repositories = {}
    /\ fact_repo_snapshots = {}
    /\ fact_render_usage = {}
    /\ repo_key_seq = 1

\* no execution of load_to_analytics_simple has started
InitLoad(rows) ==
    /\ load_pc = "idle"
    /\ load_rows = rows
    /\ load_idx = 1
    /\ load_today = Today
    /\ load_part = 0
    /\ loads = 0
    /\ load_attempted = {}
    /\ load_failed = {}
    /\ load_raised = FALSE
    /\ load_skipped = {}
    /\ load_nokey = {}
    /\ load_wrote = {}
    /\ factsBefore = {}
    /\ prevLoad = <<>>
    /\ latestFact = <<>>
    /\ load_last = [idx |-> 0, end |-> "none", fail |-> "none"]

\* no pure function has been applied
NotApplied == [done |-> FALSE]
TARGET_LANGUAGES == {"Python", "TypeScript", "Go"}
RunTasks == TARGET_LANGUAGES \cup {"render_ecosystem"}
NoSummary == [returned |-> FALSE]
NoEnv == [token |-> "ok", client |-> "ok", database_url |-> "set"]
InitRun ==
    /\ ic_calls = 0
    /\ ic_pc = "idle"
    /\ ic_env = NoEnv
    /\ ic_attempt = 0
    /\ ic_outcomes = <<>>
    /\ ic_sleeps = <<>>
    /\ ic_error = None
    /\ session_open = 0
    /\ pools_open = 0
    /\ handles = FALSE
    /\ ic_peer = "idle"
    /\ run_mode = "prod"
    /\ run_pc = "idle"
    /\ tpc = [t \in RunTasks |-> "pending"]
    /\ readme_inflight = [t \in RunTasks |-> 0]
    /\ run_summary = NoSummary
    /\ run_error = None
    /\ run_cause = None
\* no call of search_repos_by_path
NoSearch == [filename |-> None]

InitFn ==
    /\ q_repo = <<>>
    /\ q_out = NotApplied
    /\ r_in = <<>>
    /\ r_out = NotApplied
    /\ d_in = <<>>
    /\ d_out = NotApplied
    /\ s_in = NoSearch
    /\ s_out = NotApplied

\* history: the tasks that settle in a step are appended, in index order
\* (several settle in one step when gather starts a chunk: a task with an
\* unusable name returns before its first await)
AscendingSeq(S) ==
    [k \in 1..Cardinality(S) |->
        CHOOSE i \in S : Cardinality({j \in S : j < i}) = k - 1]
SettleRecorded ==
    settle_order' = settle_order
        \o AscendingSeq({i \in Tasks : pc[i] \notin Terminal
                                        /\ pc'[i] \in Terminal})

\* init_connections returns, or raises and analyze_repo_batch returns []
\* from its except clauses; the session and the pools the call opens,
\* leaves open or closes are followed in Part 8
BatchInit(ok) ==
    /\ bpc = "start"
    /\ bpc' = IF ok THEN "loop" ELSE "returned"
    /\ UNCHANGED <<repos, readme_contents, batch_idx, pc, det, rd, enriched,
                   staged, store_pc, enriched_repos, batch_raised>>
    /\ SettleRecorded
    /\ UNCHANGED <<storeVars, histVars, apiVars, etlVars, runVars, now>>

\* one iteration of the for loop up to the await of gather: every task of
\* the chunk is created and runs to its first await
BatchSpawn ==
    /\ bpc = "loop"
    /\ batch_idx <= Len(Chunks)
    /\ LET chunk == Range(Chunks[batch_idx])
       IN  /\ pc' = [i \in Tasks |->
                       IF i \in chunk THEN FirstStep(repos[i]) ELSE pc[i]]
           /\ det' = [i \in Tasks |->
                       IF i \in chunk THEN FirstDet(repos[i]) ELSE det[i]]
           /\ rd' = [i \in Tasks |->
                       IF i \in chunk THEN FirstRd(repos[i]) ELSE rd[i]]
    /\ bpc' = "gather"
    /\ UNCHANGED <<repos, readme_contents, batch_idx, enriched, staged,
                   store_pc, enriched_repos, batch_raised>>
    /\ SettleRecorded
    /\ UNCHANGED <<storeVars, histVars, apiVars, etlVars, runVars, now>>

\* detect_render_usage: the render.yaml fetch answers (absent, a failed
\* fetch included, or the content of the file), and with a content the
\* Dockerfile request is sent
YamlAnswers == {"absent", "docker", "docker_unhashable"}
DetectYaml(i) ==
    /\ pc[i] = "fetching" /\ det[i] = "yaml"
    /\ \E answer \in YamlAnswers : det' = [det EXCEPT ![i] = answer]
    /\ pc' = [pc EXCEPT ![i] = AfterFetch(det'[i], rd[i])]
    /\ UNCHANGED <<repos, readme_contents, bpc, batch_idx, rd, enriched,
                   staged, store_pc, enriched_repos, batch_raised>>
    /\ SettleRecorded
    /\ UNCHANGED <<storeVars, histVars, apiVars, etlVars, runVars, now>>

\* detect_render_usage: the Dockerfile fetch answers and the rest of the
\* try block runs: uses_render is True, unless calculate_render_complexity
\* raises TypeError on an unhashable service type, which the except clause
\* turns into {'uses_render': False}
DetectEnd(d) == IF d = "docker_unhashable" THEN "absent" ELSE "found"
DetectDocker(i) ==
    /\ pc[i] = "fetching" /\ det[i] \in {"docker", "docker_unhashable"}
    /\ det' = [det EXCEPT ![i] = DetectEnd(det[i])]
    /\ pc' = [pc EXCEPT ![i] = AfterFetch(det'[i], rd[i])]
    /\ UNCHANGED <<repos, readme_contents, bpc, batch_idx, rd, enriched,
                   staged, store_pc, enriched_repos, batch_raised>>
    /\ SettleRecorded
    /\ UNCHANGED <<storeVars, histVars, apiVars, etlVars, runVars, now>>

\* fetch_readme: the root listing answers
ReadmeList(i) ==
    /\ pc[i] = "fetching" /\ rd[i] = "list"
    /\ \E found \in BOOLEAN :
          rd' = [rd EXCEPT ![i] = IF found THEN "download" ELSE "none"]
    /\ pc' = [pc EXCEPT ![i] = AfterFetch(det[i], rd'[i])]
    /\ UNCHANGED <<repos, readme_contents, bpc, batch_idx, det, enriched,
                   staged, store_pc, enriched_repos, batch_raised>>
    /\ SettleRecorded
    /\ UNCHANGED <<storeVars, histVars, apiVars, etlVars, runVars, now>>

\* fetch_readme: the raw download answers (status 200 or not)
ReadmeDownload(i) ==
    /\ pc[i] = "fetching" /\ rd[i] = "download"
    /\ \E ok \in BOOLEAN :
          rd' = [rd EXCEPT ![i] = IF ok THEN "text" ELSE "none"]
    /\ pc' = [pc EXCEPT ![i] = AfterFetch(det[i], rd'[i])]
    /\ UNCHANGED <<repos, readme_contents, bpc, batch_idx, det, enriched,
                   staged, store_pc, enriched_repos, batch_raised>>
    /\ SettleRecorded
    /\ UNCHANGED <<storeVars, histVars, apiVars, etlVars, runVars, now>>

\* build the enriched dict, parse the timestamps, compute the quality score
Score(i) ==
    /\ pc[i] = "scoring"
    /\ pc' = [pc EXCEPT ![i] = ScoreOutcome(repos[i])]
    /\ enriched' =
          IF ParseRaises(repos[i]) THEN enriched
          ELSE (i :> BuildEnriched(repos[i], det[i] = "found",
                        IF rd[i] = "none" THEN None ELSE "readme"))
               @@ enriched
    /\ UNCHANGED <<repos, readme_contents, bpc, batch_idx, det, rd, staged,
                   store_pc, enriched_repos, batch_raised>>
    /\ SettleRecorded
    /\ UNCHANGED <<storeVars, histVars, apiVars, etlVars, runVars, now>>

\* the release a task awaits when it leaves 'async with db_pool.acquire()':
\* of store_in_staging or of store_render_enrichment, after the INSERT
\* returned or raised
ReleaseAfter(fn, ok) == IF ok THEN fn \o "_release" ELSE fn \o "_raised"
AwaitsRelease(i, fn) == store_pc[i] \in {fn \o "_release", fn \o "_raised"}

\* the release of the connection returns or raises; the task goes on after
\* the store function (onward) when INSERT and release both returned, and
\* ends with the exception of the INSERT or of the release otherwise
Release(i, fn, released, onward) ==
    /\ pc[i] = "persisting" /\ AwaitsRelease(i, fn)
    /\ store_pc' = [store_pc EXCEPT ![i] = "idle"]
    /\ pc' = [pc EXCEPT ![i] =
                 IF released /\ store_pc[i] = ReleaseAfter(fn, TRUE)
                 THEN onward ELSE "failed"]
    /\ UNCHANGED <<repos, readme_contents, bpc, batch_idx, det, rd, enriched,
                   staged, enriched_repos, batch_raised>>
    /\ SettleRecorded
    /\ UNCHANGED <<storeVars, histVars, apiVars, etlVars, runVars, now>>

\* await store_in_staging(enriched, db_pool): the INSERT is executed on the
\* acquired connection, or the database raises
Persist(i) ==
    /\ pc[i] = "persisting" /\ ~staged[i] /\ store_pc[i] = "idle"
    /\ \E ok \in BOOLEAN :
          /\ store_pc' = [store_pc EXCEPT ![i] = ReleaseAfter("staging", ok)]
          /\ IF ok
             THEN /\ staging' = store_in_staging(staging, enriched[i], now)
                  /\ staged' = [staged EXCEPT ![i] = TRUE]
             ELSE UNCHANGED <<staging, staged>>
    /\ UNCHANGED <<repos, readme_contents, bpc, batch_idx, pc, det, rd,
                   enriched, enriched_repos, batch_raised>>
    /\ SettleRecorded
    /\ UNCHANGED <<enrichment, histVars, apiVars, etlVars, runVars, now>>

\* store_in_staging leaves its 'async with' block: the task goes on to
\* store_render_enrichment when the candidate uses Render, and returns its
\* summary when it does not
PersistRelease(i, released) ==
    Release(i, "staging", released,
            IF enriched[i].uses_render THEN "persisting" ELSE "done")

\* the enrichment of a candidate found to use Render: its render.yaml
\* declares one web service, its Dockerfile is absent, and the candidate
\* has no topics and no readme_content key
DetectedProject(fn) ==
    EnrichedProject(fn, "community", <<"web">>, FALSE, 2, 1)

\* await store_render_enrichment([enriched_project], db_pool): the INSERT
\* is executed on the acquired connection, or the database raises
Enrich(i) ==
    /\ pc[i] = "persisting" /\ staged[i] /\ store_pc[i] = "idle"
    /\ \E ok \in BOOLEAN :
          /\ store_pc' =
                 [store_pc EXCEPT ![i] = ReleaseAfter("enrichment", ok)]
          /\ IF ok
             THEN enrichment' =
                     store_render_enrichment(
                         enrichment,
                         DetectedProject(enriched[i].repo_full_name), now)
             ELSE UNCHANGED enrichment
    /\ UNCHANGED <<repos, readme_contents, bpc, batch_idx, pc, det, rd,
                   enriched, staged, enriched_repos, batch_raised>>
    /\ SettleRecorded
    /\ UNCHANGED <<staging, histVars, apiVars, etlVars, runVars, now>>

\* store_render_enrichment leaves its 'async with' block and the task
\* returns its summary
EnrichRelease(i, released) == Release(i, "enrichment", released, "done")

\* gather returns (or, without return_exceptions, raises the first exception
\* of a task, which leaves analyze_repo_batch through its finally clause);
\* the results of the chunk are collected
BatchGather ==
    /\ bpc = "gather"
    /\ GatherRaises(Chunks[batch_idx]) \/ GatherComplete(Chunks[batch_idx])
    /\ IF GatherRaises(Chunks[batch_idx])
       THEN /\ batch_raised' = TaskException
            /\ bpc' = "returned"
            /\ UNCHANGED <<enriched_repos, batch_idx>>
       ELSE /\ enriched_repos' =
                  CollectResults(enriched_repos, Chunks[batch_idx])
            /\ batch_idx' = batch_idx + 1
            /\ bpc' = "loop"
            /\ UNCHANGED batch_raised
    /\ UNCHANGED <<repos, readme_contents, pc, det, rd, enriched, staged,
                   store_pc>>
    /\ SettleRecorded
    /\ UNCHANGED <<storeVars, histVars, apiVars, etlVars, runVars, now>>

\* the loop is over: return enriched_repos through the finally clause,
\* which awaits cleanup_connections outside any try: when a close() raises
\* there, that exception leaves analyze_repo_batch in place of the list
BatchReturn(closed) ==
    /\ bpc = "loop"
    /\ batch_idx > Len(Chunks)
    /\ bpc' = "returned"
    /\ batch_raised' = IF closed THEN batch_raised ELSE CloseError
    /\ UNCHANGED <<repos, readme_contents, batch_idx, pc, det, rd, enriched,
                   staged, store_pc, enriched_repos>>
    /\ SettleRecorded
    /\ UNCHANGED <<storeVars, histVars, apiVars, etlVars, runVars, now>>

Init ==
    /\ \E rs \in CandidateLists : \E rc \in ReadmeMaps(rs) : InitBatch(rs, rc)
    /\ InitStore
    /\ InitHist
    /\ InitClient
    /\ InitTables
    /\ InitLoad(<<>>)
    /\ InitRun
    /\ InitFn
    /\ now = 0

Next ==
    \/ \E ok \in BOOLEAN : BatchInit(ok)
    \/ BatchSpawn
    \/ \E i \in Tasks : DetectYaml(i)
    \/ \E i \in Tasks : DetectDocker(i)
    \/ \E i \in Tasks : ReadmeList(i)
    \/ \E i \in Tasks : ReadmeDownload(i)
    \/ \E i \in Tasks : Score(i)
    \/ \E i \in Tasks : Persist(i)
    \/ \E i \in Tasks, released \in BOOLEAN : PersistRelease(i, released)
    \/ \E i \in Tasks : Enrich(i)
    \/ \E i \in Tasks, released \in BOOLEAN : EnrichRelease(i, released)
    \/ BatchGather
    \/ \E closed \in BOOLEAN : BatchReturn(closed)

Spec == Init /\ [][Next]_vars

----------------------------------------------------------------------------
(* Claims on the orchestrator, checked under Spec                          *)

\* C1: chunk processing is sequential: no task of a later chunk has been
\* started while a task of an earlier chunk is unsettled, and two tasks that
\* are running at the same time belong to the same chunk.
C1_ChunksSequential ==
    \A chunk \in {[i \in Tasks |-> ChunkOf(i)]} :
        /\ \A i, j \in Tasks :
              (chunk[i] < chunk[j] /\ pc[j] # "pending") => Settled(i)
        /\ \A i, j \in Tasks :
              (Running(i) /\ Running(j)) => chunk[i] = chunk[j]
\* a task of a later chunk is running
C1_Witness ==
    \E i, j \in Tasks : ChunkOf(i) < ChunkOf(j) /\ Running(j) /\ Settled(i)

LoopFinished == bpc = "returned" /\ batch_idx > Len(Chunks)
DoneTasks == {i \in Tasks : pc[i] = "done"}

\* C2: partial failure containment: no exception raised by a task leaves
\* analyze_repo_batch, whatever subset of its tasks raises; when its loop
\* has ended every task of every chunk has settled (none was cancelled, no
\* chunk was left out); and the list it returns holds exactly the summaries
\* of the tasks that completed successfully.
C2_PartialFailureContained ==
    /\ batch_raised # TaskException
    /\ LoopFinished => \A i \in Tasks : Settled(i)
    /\ (bpc = "returned" /\ batch_raised = None) =>
          /\ Range(enriched_repos) = {Summary(i) : i \in DoneTasks}
          /\ Len(enriched_repos) = Cardinality(DoneTasks)
\* a task failed, a sibling of its chunk and a task of a later chunk succeeded
C2_Witness ==
    /\ bpc = "returned"
    /\ batch_raised = None
    /\ \E i, j, k \in Tasks :
          /\ pc[i] = "failed" /\ pc[j] = "done" /\ pc[k] = "done"
          /\ j # i /\ ChunkOf(j) = ChunkOf(i) /\ ChunkOf(k) > ChunkOf(i)
    /\ Cardinality({i \in Tasks : pc[i] = "failed"}) = 1
    /\ Len(enriched_repos) = Len(repos) - 1

\* the tasks whose chunk has been collected and that returned a summary
CollectedDone ==
    {i \in Tasks : pc[i] = "done" /\ i <= ChunkSize * (batch_idx - 1)}

\* C38: the list analyze_repo_batch accumulates and returns holds the
\* summaries in the order of their candidates in the input list (chunk by
\* chunk, in input order within a chunk), whatever the order in which the
\* tasks of a chunk completed, and one summary per candidate at most.
C38_ResultsInCandidateOrder ==
    /\ Len(enriched_repos) = Cardinality(CollectedDone)
    /\ \A k \in DOMAIN enriched_repos :
          enriched_repos[k] = Summary(AscendingSeq(CollectedDone)[k])
\* the second candidate of the first chunk completed before the first one:
\* the returned list still starts with the summary of the first
C38_Witness ==
    /\ bpc = "returned"
    /\ Len(enriched_repos) >= 2
    /\ pc[1] = "done" /\ pc[2] = "done"
    /\ \E a, b \in DOMAIN settle_order :
          a < b /\ settle_order[a] = 2 /\ settle_order[b] = 1
    /\ enriched_repos[1] = Summary(1)
    /\ enriched_repos[2] = Summary(2)

AllReadmesSupplied ==
    \A i \in Tasks :
        ~InvalidFullName(repos[i].full_name) => ReadmeSupplied(repos[i])

\* C3 as stated: the outbound requests in flight never exceed the chunk size.
C3_InFlightAtMostChunkSize == InFlight <= ChunkSize
\* C3 amended: the outbound requests in flight never exceed twice the chunk
\* size (a task fetches the README and the marker file concurrently), and
\* never exceed the chunk size when every README was pre-supplied.
C3_InFlightAtMostTwoPerTask ==
    /\ InFlight <= 2 * ChunkSize
    /\ AllReadmesSupplied => InFlight <= ChunkSize
\* every task of a full chunk has two requests in flight
C3_Witness == InFlight = 2 * ChunkSize

LacksRequired(repo) ==
    \/ InvalidFullName(repo.full_name)
    \/ ~TruthyStr(repo.language)
    \/ ~TruthyDate(repo.created_at)
    \/ ~TruthyDate(repo.updated_at)

\* C4: a candidate without a well-formed full name or without language,
\* created_at or updated_at makes its task skip: the task never fetches,
\* never writes to staging and never fails.
C4_InvalidCandidateSkips ==
    \A i \in Tasks :
        LacksRequired(repos[i]) => pc[i] \in {"pending", "skipped"} /\ ~staged[i]

TaskEdges ==
    {<<"pending", "fetching">>, <<"pending", "skipped">>,
     <<"pending", "failed">>, <<"fetching", "scoring">>,
     <<"fetching", "failed">>, <<"scoring", "persisting">>,
     <<"scoring", "failed">>, <<"persisting", "done">>,
     <<"persisting", "failed">>}

\* C5: every task moves along pending -> fetching -> scoring -> persisting
\* -> done, with skipped entered from pending only and failed from any
\* step, both terminal; scoring starts only when README fetch and detection
\* have both settled; a staging write is made only by a persisting task
\* whose quality score has been computed; no exception of a task leaves the
\* batch.
C5_TaskStateMachine ==
    [][/\ \A i \in Tasks :
             /\ pc'[i] # pc[i] => <<pc[i], pc'[i]>> \in TaskEdges
             /\ (pc'[i] = "scoring" /\ pc[i] # "scoring") =>
                    (det'[i] \in DetSettled /\ rd'[i] \in RdSettled)
             /\ (staged'[i] /\ ~staged[i]) =>
                    (pc[i] = "persisting" /\ i \in DOMAIN enriched)
       /\ staging' # staging => \E i \in Tasks : staged'[i] /\ ~staged[i]
       /\ batch_raised' # TaskException]_vars
\* one task done after its staging write, one failed, one skipped
C5_Witness ==
    \E i, j, k \in Tasks :
        /\ pc[i] = "done" /\ staged[i]
        /\ pc[j] = "failed"
        /\ pc[k] = "skipped"

\* task i is inside store_in_staging or store_render_enrichment, the two
\* places where it acquires a pool connection (async with db_pool.acquire())
ConnectionAcquired(i) == pc[i] = "persisting"
\* a request of detect_render_usage or fetch_readme of task i is pending
RequestPending(i) ==
    det[i] \in DetFetching \/ rd[i] \in {"list", "download"}

\* C30: a task that has acquired a pool connection has no API request in
\* flight, and a staging or enrichment write is made by a task whose
\* detection and README fetch have both settled.
C30_NoConnectionAcrossApiCall ==
    /\ [](\A i \in Tasks : ConnectionAcquired(i) => ~RequestPending(i))
    /\ [][\A i \in Tasks :
             ((staged'[i] /\ ~staged[i])
              \/ (store_pc[i] = "idle"
                  /\ store_pc'[i] = ReleaseAfter("enrichment", TRUE)))
             => (det[i] \in DetSettled /\ rd[i] \in RdSettled)]_vars
\* a task writes to staging, its own fetches settled, while another task of
\* the chunk still has both requests in flight
C30_Witness ==
    \E i, j \in Tasks :
        /\ ConnectionAcquired(i) /\ staged[i]
        /\ det[i] = "found" /\ rd[i] = "text"
        /\ pc[j] = "fetching" /\ det[j] = "yaml" /\ rd[j] = "list"

----------------------------------------------------------------------------
(* Part 2: store_in_staging under arbitrary sequences of calls             *)

MaxWrites == 3

\* a later fetch of o/a in which every attribute differs
RepoA2 == [RepoA EXCEPT !.html_url = "url2", !.language = "Python",
                        !.description = None, !.stargazers_count = 130,
                        !.created_at = Iso(70), !.updated_at = Iso(100)]

\* the enriched records analyze_single_repo can pass to store_in_staging
StagingInputs ==
    {BuildEnriched(c, u, r) : c \in {RepoA, RepoA2, RepoB},
                              u \in BOOLEAN, r \in {None, "readme"}}

\* one call of store_in_staging; NOW() advances between calls
StoreCall(repo) ==
    /\ writes < MaxWrites
    /\ staging' = store_in_staging(staging, repo, now)
    /\ now' = now + 1
    /\ writes' = writes + 1
    /\ prevStaging' = staging
    /\ prevRec' = lastRec
    /\ lastRec' = repo
    /\ latest' = (repo.repo_full_name :> repo) @@ latest
    /\ first' = IF repo.repo_full_name \in DOMAIN first THEN first
                ELSE (repo.repo_full_name :> repo) @@ first
    /\ UNCHANGED <<batchVars, enrichment, apiVars, etlVars, runVars>>

InitStaging ==
    /\ InitBatch(<<>>, {})
    /\ InitStore
    /\ InitHist
    /\ InitClient
    /\ InitTables
    /\ InitLoad(<<>>)
    /\ InitRun
    /\ InitFn
    /\ now = 0

NextStaging == \E repo \in StagingInputs : StoreCall(repo)

SpecStaging == InitStaging /\ [][NextStaging]_vars

\* a row without its loaded_at column
Data(r) == [f \in DOMAIN r \ {"loaded_at"} |-> r[f]]
DataOf(rows) == {Data(r) : r \in rows}

OneRowPerName ==
    /\ \A r1, r2 \in staging :
          r1.repo_full_name = r2.repo_full_name => r1 = r2
    /\ {r.repo_full_name : r \in staging} = DOMAIN latest

\* writing the record of the previous call again leaves every column but
\* loaded_at as it was
SameRecordTwice ==
    (writes >= 2 /\ lastRec = prevRec) => DataOf(staging) = DataOf(prevStaging)

\* C6 as stated: one row per name; star count, both timestamps, README and
\* quality score are those of the latest write; a repeated write changes
\* nothing but loaded_at.
C6_MutableFieldsOfLatestWrite ==
    /\ OneRowPerName
    /\ \A r \in staging :
          LET l == latest[r.repo_full_name]
          IN  /\ r.stars = l.stars
              /\ r.created_at = l.created_at
              /\ r.updated_at = l.updated_at
              /\ r.readme_content = l.readme_content
              /\ r.data_quality_score = l.data_quality_score
    /\ SameRecordTwice

\* C6 amended: one row per name; star count, updated_at, uses_render, README
\* and quality score are those of the latest write, loaded_at is the time
\* of the latest write; created_at, URL, language and description stay
\* those of the first write; a repeated write changes nothing but loaded_at.
C6_UpsertOverwritesUpdateList ==
    /\ OneRowPerName
    /\ \A r \in staging :
          LET l == latest[r.repo_full_name]
              f == first[r.repo_full_name]
          IN  /\ r.stars = l.stars
              /\ r.updated_at = l.updated_at
              /\ r.uses_render = l.uses_render
              /\ r.readme_content = l.readme_content
              /\ r.data_quality_score = l.data_quality_score
              /\ r.created_at = f.created_at
              /\ r.repo_url = f.repo_url
              /\ r.language = f.language
              /\ r.description = f.description
              /\ r.loaded_at < now
              /\ (lastRec.repo_full_name = r.repo_full_name)
                     => r.loaded_at = now - 1
    /\ SameRecordTwice
\* a name written with different records, then the same record twice
C6_Witness ==
    /\ writes >= 3
    /\ lastRec = prevRec
    /\ \E r \in staging :
          /\ r.repo_full_name = lastRec.repo_full_name
          /\ first[r.repo_full_name].created_at # lastRec.created_at
          /\ r.stars = lastRec.stars
    /\ Cardinality(staging) = 1

----------------------------------------------------------------------------
(* Part 3: GitHubAPIClient._api_call and its callers                       *)

LowWaterMark == 100
SafetyMargin == 5
RetryCount == 3
UnavailableDelay == 5

MaxCalls == 2
\* no call starts after this time
MaxStart == 12

RECURSIVE Pow2(_)
Pow2(n) == IF n = 0 THEN 1 ELSE 2 * Pow2(n - 1)

Callers == {"search_repositories", "get_file_contents"}

\* seconds between the end of a call and the start of the next
Elapsed == {0, 11}

\* what one request can end in: a response by status and body ("200": the
\* JSON the caller asked for; "200_other": a JSON object without the keys
\* 'content' and 'items'; "200_list": a JSON array that is not empty, as
\* the listing of a directory is), a timeout,
\* a network error, or a response one of whose rate-limit headers is not a
\* number ("bad_header": X-RateLimit-Remaining, "bad_reset_header":
\* X-RateLimit-Reset), so that int() raises ValueError
Outcomes == {"200", "200_other", "200_list", "200_badjson", "404",
             "403_rate", "403_scope", "403_other", "422", "503", "500",
             "timeout", "neterr", "bad_header", "bad_reset_header"}
\* the responses whose body is awaited after the headers are recorded:
\* response.text() for 403, response.json() for 200
BodyAwaited == {"200", "200_other", "200_list", "200_badjson", "403_rate",
               "403_scope", "403_other"}
\* the value response.json() gives
JsonOf(o) ==
    IF o = "200_other" THEN "json_other"
    ELSE IF o = "200_list" THEN "json_list"
    ELSE "json"
IsResponse(o) == o \notin {"timeout", "neterr"}
\* the assignments of lines 73 and 74 that are carried out before the
\* exception, if any, leaves the block
RemainingAssigned(o) == IsResponse(o) /\ o # "bad_header"
ResetAssigned(o) == RemainingAssigned(o) /\ o # "bad_reset_header"

\* X-RateLimit-Remaining / X-RateLimit-Reset of a response received at t:
\* both missing, or quota low with the reset 10 s ahead (a low quota without
\* a reset time is what a response with an unreadable reset header leaves)
HeaderChoices(t) ==
    {[remaining |-> DefaultRemaining, reset |-> 0],
     [remaining |-> 50, reset |-> t + 10]}

\* the rate-limit check at the head of _api_call
GateSleeps(remaining, reset, t) ==
    /\ remaining < LowWaterMark
    /\ reset # NoReset /\ reset # 0
    /\ Max(reset - t, 0) > 0
GateDelayNoMargin(reset, t) == Max(reset - t, 0)
GateDelay(reset, t) == Max(reset - t, 0) + SafetyMargin

\* the match on response.status with the except clauses around it:
\*   "json"     return await response.json()
\*   "none"     return None
\*   "retry"    ClientError or TimeoutError caught: back off 2 ** attempt
\*   "retry503" back off 5 s
\*   "raise"    an exception no clause catches
DispatchOkRetried(o) ==
    IF o \in {"200_other", "200_list"} THEN "json"
    ELSE IF o \in {"404", "403_rate", "403_scope", "422", "200_badjson"}
         THEN "none"
    ELSE IF o = "503" THEN "retry503"
    ELSE IF o \in {"403_other", "500", "timeout", "neterr", "200"} THEN "retry"
    ELSE "raise"
DispatchNotFoundRetried(o) ==
    IF o \in {"200", "200_other", "200_list"} THEN "json"
    ELSE IF o \in {"403_rate", "403_scope", "422", "200_badjson"} THEN "none"
    ELSE IF o = "503" THEN "retry503"
    ELSE IF o \in {"403_other", "500", "timeout", "neterr", "404"} THEN "retry"
    ELSE "raise"
Dispatch(o) ==
    IF o \in {"200", "200_other", "200_list"} THEN "json"
    ELSE IF o \in {"404", "403_rate", "403_scope", "422", "200_badjson"}
         THEN "none"
    ELSE IF o = "503" THEN "retry503"
    ELSE IF o \in {"403_other", "500", "timeout", "neterr"} THEN "retry"
    ELSE "raise"

\* if attempt < retry_count - 1: sleep and continue
RetryAllowed(a) == a < RetryCount - 1
BackoffDelay(kind, a) == IF kind = "retry503" THEN UnavailableDelay ELSE Pow2(a)

\* search_repositories: [] unless _api_call returned a result; the repos
\* of result.get('items', []), none when the key is absent
SearchReturnsResult(res) == IF res = None THEN None ELSE "[items]"
SearchReturn(res) == IF res = "json" THEN "[items]" ELSE "[]"
\* search_repositories has no try block: result.get('items', []) on a
\* result that is a list raises AttributeError
SearchRaises(res) == res = "json_list"
\* get_file_contents: if result and 'content' in result: the decoded
\* content, else None (a list does not hold the string 'content')
GetFileContentsReturn(res) == IF res = "json" THEN "content" ELSE None
\* what the public method returns (None stands for no value when it
\* raises); get_file_contents catches every exception
CallerReturn(c, res, exc) ==
    IF c = "search_repositories"
    THEN IF exc \/ SearchRaises(res) THEN None ELSE SearchReturn(res)
    ELSE IF exc THEN None ELSE GetFileContentsReturn(res)
\* an exception reaches the caller of the public method: the one _api_call
\* raised, or the AttributeError of search_repositories itself
Propagated ==
    /\ caller = "search_repositories"
    /\ raised \/ SearchRaises(result)

\* _api_call returns res or raises
Finish(res, exc) ==
    /\ api_pc' = "idle"
    /\ result' = res
    /\ raised' = exc
    /\ ret' = CallerReturn(caller, res, exc)

\* a public method calls _api_call: the rate-limit check, then either the
\* sleep or the first request
ApiCallStart(c, dt) ==
    /\ api_pc = "idle"
    /\ calls < MaxCalls
    /\ now + dt <= MaxStart
    /\ calls' = calls + 1
    /\ caller' = c
    /\ now' = now + dt
    /\ start' = [at |-> now', remaining |-> rate_limit_remaining,
                 reset |-> rate_limit_reset]
    /\ attempt' = 0
    /\ outcomes' = <<>>
    /\ sleeps' = <<>>
    /\ result' = None
    /\ raised' = FALSE
    /\ ret' = None
    /\ IF GateSleeps(rate_limit_remaining, rate_limit_reset, now')
       THEN /\ api_pc' = "gate_sleep"
            /\ wake' = now' + GateDelay(rate_limit_reset, now')
            /\ requests' = 0
            /\ UNCHANGED firstReqAt
       ELSE /\ api_pc' = "request"
            /\ requests' = 1
            /\ firstReqAt' = now'
            /\ UNCHANGED wake
    /\ UNCHANGED <<rate_limit_remaining, rate_limit_reset>>
    /\ UNCHANGED peerVars
    /\ UNCHANGED <<batchVars, storeVars, histVars, etlVars, runVars>>

\* asyncio.sleep(sleep_duration + 5) ends, on time or late; the first
\* request is issued
GateWake ==
    /\ api_pc = "gate_sleep"
    /\ \E late \in {0, 1} : now' = wake + late
    /\ api_pc' = "request"
    /\ requests' = 1
    /\ firstReqAt' = now'
    /\ UNCHANGED <<rate_limit_remaining, rate_limit_reset, caller, attempt,
                   wake, calls, outcomes, sleeps, start, result, raised, ret>>
    /\ UNCHANGED peerVars
    /\ UNCHANGED <<batchVars, storeVars, histVars, etlVars, runVars>>

\* the match on the status of the response o once its body, if awaited, is
\* there: return, raise, or back off
AfterResponse(o) ==
    LET kind == Dispatch(o)
    IN  IF kind \in {"retry", "retry503"} /\ RetryAllowed(attempt)
        THEN /\ api_pc' = "backoff"
             /\ wake' = now + BackoffDelay(kind, attempt)
             /\ sleeps' = Append(sleeps, BackoffDelay(kind, attempt))
             /\ UNCHANGED <<result, raised, ret>>
        ELSE /\ Finish(IF kind = "json" THEN JsonOf(o) ELSE None,
                       kind = "raise")
             /\ UNCHANGED <<wake, sleeps>>

\* the request of this attempt ends in outcome o; h are the rate-limit
\* headers if a response came.  The two fields are assigned; a 403 or 200
\* response then awaits its body, any other outcome is dispatched at once
ApiResponse(o, h) ==
    /\ api_pc = "request"
    /\ outcomes' = Append(outcomes, o)
    /\ rate_limit_remaining' = IF RemainingAssigned(o) THEN h.remaining
                               ELSE rate_limit_remaining
    /\ rate_limit_reset' = IF ResetAssigned(o) THEN h.reset
                           ELSE rate_limit_reset
    /\ IF o \in BodyAwaited
       THEN /\ api_pc' = "body"
            /\ UNCHANGED <<wake, sleeps, result, raised, ret>>
       ELSE AfterResponse(o)
    /\ UNCHANGED <<caller, attempt, calls, requests, start, firstReqAt, now>>
    /\ UNCHANGED peerVars
    /\ UNCHANGED <<batchVars, storeVars, histVars, etlVars, runVars>>

\* await response.text() or await response.json() returns
ApiBody ==
    /\ api_pc = "body"
    /\ AfterResponse(outcomes[Len(outcomes)])
    /\ UNCHANGED <<rate_limit_remaining, rate_limit_reset, outcomes, caller,
                   attempt, calls, requests, start, firstReqAt, now>>
    /\ UNCHANGED peerVars
    /\ UNCHANGED <<batchVars, storeVars, histVars, etlVars, runVars>>

\* the backoff sleep ends and the loop continues: the next request is
\* issued while range(retry_count) lasts, else the final return None
BackoffWake ==
    /\ api_pc = "backoff"
    /\ now' = wake
    /\ attempt' = attempt + 1
    /\ IF attempt + 1 < RetryCount
       THEN /\ api_pc' = "request"
            /\ requests' = requests + 1
            /\ UNCHANGED <<result, raised, ret>>
       ELSE /\ Finish(None, FALSE)
            /\ UNCHANGED requests
    /\ UNCHANGED <<rate_limit_remaining, rate_limit_reset, caller, wake, calls,
                   outcomes, sleeps, start, firstReqAt>>
    /\ UNCHANGED peerVars
    /\ UNCHANGED <<batchVars, storeVars, histVars, etlVars, runVars>>

\* The client is shared: analyze_single_repo gathers detect_render_usage
\* and fetch_readme on it and analyze_repo_batch gathers the tasks of a
\* chunk, so a second _api_call runs between the awaits of the first.  Of
\* that concurrent call the steps that read or write the two rate-limit
\* fields are kept: its rate-limit check, its sleep, its request answered
\* by 200 or 404, and the wait for the body of a 200.
MaxPeerCalls == 1
PeerOutcomes == {"200", "404"}

\* the concurrent call starts: the rate-limit check on the fields as they
\* are now, then the sleep or the request
PeerStart ==
    /\ peer_pc = "idle"
    /\ peer_calls < MaxPeerCalls
    /\ peer_calls' = peer_calls + 1
    /\ IF GateSleeps(rate_limit_remaining, rate_limit_reset, now)
       THEN /\ peer_pc' = "gate_sleep"
            /\ peer_wake' = now + GateDelay(rate_limit_reset, now)
       ELSE /\ peer_pc' = "request"
            /\ UNCHANGED peer_wake
    /\ UNCHANGED <<rate_limit_remaining, rate_limit_reset, api_pc, caller,
                   attempt, wake, calls, requests, outcomes, sleeps, start,
                   firstReqAt, result, raised, ret, now>>
    /\ UNCHANGED <<batchVars, storeVars, histVars, etlVars, runVars>>

\* its sleep has ended, on time or late
PeerWake ==
    /\ peer_pc = "gate_sleep"
    /\ now >= peer_wake
    /\ peer_pc' = "request"
    /\ UNCHANGED <<peer_wake, peer_calls>>
    /\ UNCHANGED <<rate_limit_remaining, rate_limit_reset, api_pc, caller,
                   attempt, wake, calls, requests, outcomes, sleeps, start,
                   firstReqAt, result, raised, ret, now>>
    /\ UNCHANGED <<batchVars, storeVars, histVars, etlVars, runVars>>

\* its request is answered: the two fields are assigned, then a 404
\* returns and a 200 awaits response.json()
PeerResponse(o, h) ==
    /\ peer_pc = "request"
    /\ o \in PeerOutcomes
    /\ rate_limit_remaining' = h.remaining
    /\ rate_limit_reset' = h.reset
    /\ peer_pc' = IF o \in BodyAwaited THEN "body" ELSE "idle"
    /\ UNCHANGED <<peer_wake, peer_calls>>
    /\ UNCHANGED <<api_pc, caller, attempt, wake, calls, requests, outcomes,
                   sleeps, start, firstReqAt, result, raised, ret, now>>
    /\ UNCHANGED <<batchVars, storeVars, histVars, etlVars, runVars>>

\* its body has been read: the concurrent call returns
PeerBody ==
    /\ peer_pc = "body"
    /\ peer_pc' = "idle"
    /\ UNCHANGED <<peer_wake, peer_calls>>
    /\ UNCHANGED <<rate_limit_remaining, rate_limit_reset, api_pc, caller,
                   attempt, wake, calls, requests, outcomes, sleeps, start,
                   firstReqAt, result, raised, ret, now>>
    /\ UNCHANGED <<batchVars, storeVars, histVars, etlVars, runVars>>

InitApi ==
    /\ InitBatch(<<>>, {})
    /\ InitStore
    /\ InitHist
    /\ InitClient
    /\ InitTables
    /\ InitLoad(<<>>)
    /\ InitRun
    /\ InitFn
    /\ now = 0

NextApi ==
    \/ \E c \in Callers, dt \in Elapsed : ApiCallStart(c, dt)
    \/ GateWake
    \/ \E o \in Outcomes : \E h \in HeaderChoices(now) : ApiResponse(o, h)
    \/ ApiBody
    \/ BackoffWake

\* one call at a time on the client
SpecApi == InitApi /\ [][NextApi]_vars

\* the outcomes of the observed call while a second call runs beside it
SharedOutcomes == {"200", "404", "403_rate", "503", "timeout",
                   "bad_reset_header"}

NextApiShared ==
    \/ \E c \in Callers, dt \in Elapsed : ApiCallStart(c, dt)
    \/ GateWake
    \/ \E o \in SharedOutcomes : \E h \in HeaderChoices(now) :
          ApiResponse(o, h)
    \/ ApiBody
    \/ BackoffWake
    \/ PeerStart
    \/ PeerWake
    \/ \E o \in PeerOutcomes : \E h \in HeaderChoices(now) :
          PeerResponse(o, h)
    \/ PeerBody

\* two calls on the one client, interleaved at their awaits
SpecApiShared == InitApi /\ [][NextApiShared]_vars

\* the outcomes of a call whose termination is followed: every outcome but
\* those the retry loop treats exactly as one that is kept ("200_other"
\* and "200_list" as "200", "403_scope" as "403_rate", "422" as "404")
LiveOutcomes == Outcomes \ {"200_other", "200_list", "403_scope", "422"}

NextApiLive ==
    \/ \E c \in Callers, dt \in Elapsed : ApiCallStart(c, dt)
    \/ GateWake
    \/ \E o \in LiveOutcomes : \E h \in HeaderChoices(now) :
          ApiResponse(o, h)
    \/ ApiBody
    \/ BackoffWake

\* every timer fires and every request ends (in a response, an error, or
\* the 30 s timeout)
SpecApiLive ==
    /\ InitApi
    /\ [][NextApiLive]_vars
    /\ WF_vars(GateWake)
    /\ WF_vars(BackoffWake)
    /\ WF_vars(\E o \in LiveOutcomes : \E h \in HeaderChoices(now) :
                  ApiResponse(o, h))
    /\ WF_vars(ApiBody)

----------------------------------------------------------------------------
(* Claims on the API client                                                *)

Returned == api_pc = "idle" /\ calls >= 1
Last(q) == q[Len(q)]

\* C7: a call that starts with remaining quota below 100 and a reset time
\* R > 0 seconds ahead issues its first request no earlier than R + 5
\* seconds after its start.
C7_RateLimitGate ==
    (/\ calls >= 1
     /\ start.remaining < LowWaterMark
     /\ start.reset # NoReset
     /\ start.reset > start.at
     /\ requests >= 1)
    => firstReqAt >= start.at + (start.reset - start.at) + SafetyMargin
\* such a call has issued its request
C7_Witness ==
    /\ calls >= 1
    /\ start.remaining = 50
    /\ start.reset = start.at + 10
    /\ requests >= 1
    /\ firstReqAt >= start.at + 15

ExpectedFailures == {"timeout", "neterr", "500", "503", "403_rate",
                     "403_scope", "403_other", "404", "422", "200_badjson"}

\* C8: a call all of whose attempts ended in an expected API failure
\* returns None without raising, and search_repositories returns [].
C8_ExpectedFailuresReturnNone ==
    (/\ Returned
     /\ \A k \in DOMAIN outcomes : outcomes[k] \in ExpectedFailures)
    => /\ result = None
       /\ ~raised
       /\ ~Propagated
       /\ caller = "search_repositories" => ret = "[]"
       /\ caller = "get_file_contents" => ret = None
\* search_repositories after three failed attempts, the last a 403 with an
\* unrecognized body
C8_Witness ==
    /\ Returned
    /\ caller = "search_repositories"
    /\ Len(outcomes) = RetryCount
    /\ outcomes[1] = "timeout"
    /\ Last(outcomes) = "403_other"
    /\ ret = "[]"

\* C9: a call issues at most retry_count requests; a successful response
\* ends the call with that response; and every call terminates.
C9_BoundedRetries ==
    /\ [](/\ requests <= RetryCount
          /\ Len(outcomes) <= requests
          /\ Len(sleeps) <= RetryCount - 1
          /\ \A k \in DOMAIN outcomes :
                outcomes[k] = "200" =>
                    /\ k = Len(outcomes)
                    /\ api_pc \in {"body", "idle"}
                    /\ api_pc = "idle" => result = "json")
    /\ (api_pc # "idle") ~> (api_pc = "idle")
\* success on the last allowed attempt after two transient failures
C9_Witness ==
    /\ Returned
    /\ requests = RetryCount
    /\ outcomes = <<"timeout", "503", "200">>
    /\ result = "json"

\* C10 as stated: a call answered by 404 has issued exactly one request,
\* slept no backoff, raised nothing, and get_file_contents returns None.
C10_NotFoundSingleRequest ==
    (Returned /\ Len(outcomes) >= 1 /\ Last(outcomes) = "404")
    => /\ requests = 1
       /\ sleeps = <<>>
       /\ result = None /\ ~raised
       /\ caller = "get_file_contents" => ret = None
\* C10 amended: the request answered by 404 is the last of its call: the
\* call has returned None without raising, no request and no backoff sleep
\* follow the 404, get_file_contents returns None; and the call has issued
\* exactly one request when the 404 answered its first attempt.
C10_NotFoundReturnsAtOnce ==
    \A k \in DOMAIN outcomes :
        outcomes[k] = "404" =>
            /\ k = Len(outcomes)
            /\ Returned
            /\ requests = k
            /\ Len(sleeps) = k - 1
            /\ result = None /\ ~raised
            /\ caller = "get_file_contents" => ret = None
\* get_file_contents whose first request is answered by 404
C10_Witness ==
    /\ Returned
    /\ caller = "get_file_contents"
    /\ outcomes = <<"404">>
    /\ requests = 1
    /\ ret = None

\* a request goes out in this step: the first of a call (with or without a
\* sleep at the rate-limit check) or the one after a backoff sleep
RequestIssued == api_pc' = "request" /\ api_pc # "request"
\* the recorded quota is below the low-water mark and the recorded reset
\* time plus the margin is later than t
QuotaLowUntilReset(t) ==
    /\ rate_limit_remaining < LowWaterMark
    /\ rate_limit_reset \notin {NoReset, 0}
    /\ t < rate_limit_reset + SafetyMargin

\* C26: no request (first attempt or retry) is issued while the recorded
\* remaining quota is below 100 and the recorded reset time plus the margin
\* has not passed.
C26_GatePrecedesEveryRequest ==
    [][RequestIssued => ~QuotaLowUntilReset(now')]_vars
\* what the code keeps: the first request of a call is never issued before
\* the reset time recorded when the call started
C26_FirstAttemptAfterReset ==
    [][(RequestIssued /\ attempt' = 0)
        => ~(/\ rate_limit_remaining < LowWaterMark
             /\ rate_limit_reset \notin {NoReset, 0}
             /\ now' < rate_limit_reset)]_vars

\* the recorded pair is the initial one or the header pair of one response
PairOfOneResponse ==
    \/ /\ rate_limit_remaining = DefaultRemaining
       /\ rate_limit_reset = NoReset
    \/ \E t \in 0..now :
          [remaining |-> rate_limit_remaining, reset |-> rate_limit_reset]
              \in HeaderChoices(t)
\* a response is received in this step
ResponseReceived ==
    /\ Len(outcomes') = Len(outcomes) + 1
    /\ IsResponse(Last(outcomes'))
HeadersWellFormed(o) == o \notin {"bad_header", "bad_reset_header"}

\* C27: every response replaces both rate-limit fields by the values of its
\* headers, and the recorded pair always comes from one single response.
C27_RefreshedAtomically ==
    /\ [][ResponseReceived
            => \E h \in HeaderChoices(now) :
                  /\ rate_limit_remaining' = h.remaining
                  /\ rate_limit_reset' = h.reset]_vars
    /\ []PairOfOneResponse
\* what the code keeps: a response whose two headers are integers or absent
\* replaces both fields in one step
C27_WellFormedRefreshed ==
    [][(ResponseReceived /\ HeadersWellFormed(Last(outcomes')))
        => \E h \in HeaderChoices(now) :
              /\ rate_limit_remaining' = h.remaining
              /\ rate_limit_reset' = h.reset]_vars

\* C28: the first backoff of a call is the base delay 2 ** 0 and every later
\* backoff is twice the one before it, whatever the transient failure was.
C28_BackoffDoubles ==
    /\ Len(sleeps) >= 1 => sleeps[1] = Pow2(0)
    /\ \A k \in 1 .. Len(sleeps) - 1 : sleeps[k + 1] = 2 * sleeps[k]
\* what the code keeps: the backoff after attempt k is 5 s when the attempt
\* was answered by 503 and 2 ** (k - 1) after any other transient failure
C28_BackoffOfCode ==
    \A k \in DOMAIN sleeps :
        sleeps[k] = IF outcomes[k] = "503" THEN UnavailableDelay
                    ELSE Pow2(k - 1)

----------------------------------------------------------------------------
(* Part 4: load_to_analytics_simple and the analytics tables               *)

MaxLoads == 2

\* SQL NULL / Python None for keys and ranks (serial keys start at 1)
NoKey == 0

\* a row of the extraction query of aggregate_results (staging joined with
\* the render enrichment)
ExtRow(fn, lang, desc, stars, created, uses, services) ==
    [repo_full_name |-> fn, repo_url |-> "url", language |-> lang,
     description |-> desc, stars |-> stars, created_at |-> created,
     uses_render |-> uses, readme_content |-> "readme",
     render_category |-> None,
     render_services |-> services, render_complexity_score |-> Len(services),
     has_blueprint_button |-> FALSE]

\* created 31 days before Today, at noon
RowA  == ExtRow(<<"o", "/", "a">>, "Go", "desc", 120, Iso(Today - 31),
                FALSE, <<>>)
\* the same repository as a later extraction finds it
RowA2 == ExtRow(<<"o", "/", "a">>, "Go", "desc2", 130, Iso(Today - 31),
                FALSE, <<>>)
\* uses Render; declares a service type the service dimension lacks; its
\* enrichment row has the category of an official organization
RowB  == [ExtRow(<<"o", "/", "b">>, "Python", None, 30, Iso(Today - 5),
                 TRUE, <<"web", "cron_x">>)
            EXCEPT !.render_category = "official"]
\* a language the language dimension lacks
RowR  == ExtRow(<<"o", "/", "r">>, "Rust", None, 30, NoDate, FALSE, <<>>)

\* uses Render, no stars yet, created 45 days before Today
RowZ  == ExtRow(<<"o", "/", "z">>, "Go", None, 0, Iso(Today - 45), TRUE,
                <<>>)

\* the results of the extraction query, ORDER BY stars DESC
LoadInputs == {<<RowA, RowB>>, <<RowA2, RowB, RowR>>, <<RowB, RowR>>,
               <<RowA, RowZ>>}

\* dim_languages and dim_render_services: lookup tables filled out of band
dim_languages == ("Python" :> 1) @@ ("TypeScript" :> 2) @@ ("Go" :> 3)
dim_render_services == ("web" :> 1) @@ ("worker" :> 2)

\* SELECT language_key FROM dim_languages WHERE language_name = $1
LanguageKey(lang) ==
    IF lang \in DOMAIN dim_languages THEN dim_languages[lang] ELSE NoKey
\* SELECT service_key FROM dim_render_services WHERE service_type = $1
ServiceKey(t) ==
    IF t \in DOMAIN dim_render_services THEN dim_render_services[t] ELSE NoKey
\* SELECT repo_key FROM dim_repositories
\* WHERE repo_full_name = $1 AND is_current = TRUE
RepoKey(dim, name) ==
    LET cur == {d \in dim : d.repo_full_name = name /\ d.is_current}
    IN  IF cur = {} THEN NoKey ELSE (CHOOSE d \in cur : TRUE).repo_key

\* INSERT INTO dim_repositories ... ON CONFLICT (repo_full_name)
\* WHERE is_current = TRUE DO UPDATE SET ...
DimInsertAlways(dim, seq, row) ==
    dim \cup {[repo_key |-> seq, repo_full_name |-> row.repo_full_name,
               repo_url |-> row.repo_url, description |-> row.description,
               readme_content |-> row.readme_content,
               language |-> row.language, created_at |-> row.created_at,
               uses_render |-> row.uses_render,
               render_category |-> "community", is_current |-> TRUE]}
DimUpsert(dim, seq, row) ==
    LET cur == {d \in dim : d.repo_full_name = row.repo_full_name
                            /\ d.is_current}
    IN  IF cur = {}
        THEN dim \cup {[repo_key |-> seq,
                        repo_full_name |-> row.repo_full_name,
                        repo_url |-> row.repo_url,
                        description |-> row.description,
                        readme_content |-> row.readme_content,
                        language |-> row.language,
                        created_at |-> row.created_at,
                        uses_render |-> row.uses_render,
                        render_category |-> "community",
                        is_current |-> TRUE]}
        ELSE (dim \ cur)
             \cup {[d EXCEPT !.repo_url = row.repo_url,
                             !.description = row.description,
                             !.readme_content = row.readme_content,
                             !.uses_render = row.uses_render] : d \in cur}

\* (now - created_at).days: created_at is at noon of its day, the load runs
\* in the morning (part 0) or in the afternoon (part 1) of today
AgeDays(created_at, today, part) == today - created_at.day - 1 + part

\* datetime.fromisoformat raises ValueError on a string that is not ISO-8601
RecencyRaises == -1

\* calculate_recency_score of load_to_analytics_simple, in hundredths
calculate_recency_score(created_at, today, part) ==
    IF ~TruthyDate(created_at) THEN 0
    ELSE IF created_at.kind = "bad" THEN RecencyRaises
    ELSE LET age_days == AgeDays(created_at, today, part)
         IN  IF age_days <= 30 THEN 100
             ELSE IF age_days <= 60 THEN 75
             ELSE IF age_days <= 90 THEN 50
             ELSE 0

RECURSIVE MaxOf(_)
MaxOf(S) == LET x == CHOOSE y \in S : TRUE
            IN  IF S = {x} THEN x ELSE Max(x, MaxOf(S \ {x}))
\* variant: one normalization base for both cohorts
MaxStarsOfAll(rows, uses) == MaxOf({rows[i].stars : i \in DOMAIN rows})
\* max([r.get('stars', 1) for r in cohort]) if cohort else 1
MaxStars(rows, uses) ==
    LET cohort == {rows[i].stars : i \in {j \in DOMAIN rows :
                                             rows[j].uses_render = uses}}
    IN  IF cohort = {} THEN 1 ELSE MaxOf(cohort)

RECURSIVE GCD(_, _)
GCD(a, b) == IF b = 0 THEN a ELSE GCD(b, a % b)
Fraction(n, d) == LET g == GCD(n, d)
                  IN  IF g = 0 THEN [num |-> 0, den |-> 1]
                      ELSE [num |-> n \div g, den |-> d \div g]

\* max_stars = max_stars_render if uses_render else max_stars_general
\* normalized_stars = stars / max_stars if max_stars > 0 else 0.0
NormalizedStars(row, rows) ==
    LET max_stars == MaxStars(rows, row.uses_render)
    IN  IF max_stars > 0 THEN [num |-> row.stars, den |-> max_stars]
        ELSE [num |-> 0, den |-> 1]

\* (normalized_stars * 0.5) + (recency_score * 0.5), as an exact fraction
MomentumScore(row, rows, today, part) ==
    LET ns == NormalizedStars(row, rows)
        recency == calculate_recency_score(row.created_at, today, part)
    IN  Fraction(100 * ns.num + recency * ns.den, 200 * ns.den)

\* INSERT INTO fact_repo_snapshots ... ON CONFLICT (repo_key, snapshot_date)
\* DO UPDATE SET stars, momentum_score, rank_overall
FactInsertAlways(facts, rk, lk, today, stars, momentum, idx) ==
    facts \cup {[repo_key |-> rk, language_key |-> lk,
                 snapshot_date |-> today, stars |-> stars,
                 momentum_score |-> momentum, rank_overall |-> idx,
                 rank_in_language |-> NoKey]}
FactUpsert(facts, rk, lk, today, stars, momentum, idx) ==
    LET conflict == {f \in facts : f.repo_key = rk /\ f.snapshot_date = today}
    IN  IF conflict = {}
        THEN facts \cup {[repo_key |-> rk, language_key |-> lk,
                          snapshot_date |-> today, stars |-> stars,
                          momentum_score |-> momentum, rank_overall |-> idx,
                          rank_in_language |-> NoKey]}
        ELSE (facts \ conflict)
             \cup {[f EXCEPT !.stars = stars, !.momentum_score = momentum,
                             !.rank_overall = idx] : f \in conflict}

\* the loop over render_services: one fact_render_usage row per service
\* type that has a service key; ON CONFLICT (repo_key, service_key,
\* snapshot_date) DO UPDATE SET complexity_score, has_blueprint leaves the
\* service_count of the row as it is
RECURSIVE UsageUpsert(_, _, _, _, _)
UsageUpsert(usage, rk, today, row, services) ==
    IF services = <<>> THEN usage
    ELSE LET sk == ServiceKey(Head(services))
             conflict == {u \in usage : /\ u.repo_key = rk
                                        /\ u.service_key = sk
                                        /\ u.snapshot_date = today}
             next == IF sk = NoKey THEN usage
                     ELSE IF conflict = {}
                     THEN usage
                          \cup {[repo_key |-> rk, service_key |-> sk,
                                 snapshot_date |-> today, service_count |-> 1,
                                 complexity_score |->
                                     row.render_complexity_score,
                                 has_blueprint |-> row.has_blueprint_button]}
                     ELSE (usage \ conflict)
                          \cup {[u EXCEPT
                                    !.complexity_score =
                                        row.render_complexity_score,
                                    !.has_blueprint =
                                        row.has_blueprint_button] :
                                 u \in conflict}
         IN  UsageUpsert(next, rk, today, row, Tail(services))

\* if not repo_key or not language_key: continue
KeysMissingRepoOnly(rk, lk) == rk = NoKey
KeysMissing(rk, lk) == rk = NoKey \/ lk = NoKey

\* the database call of a loop iteration that raises, if any: the dimension
\* upsert, a statement after it up to the fact upsert, or a statement of
\* the usage loop for the first ("usage") or the second ("usage2") service
FailPoints == {"none", "dim", "fact", "usage", "usage2"}
UsageFailures == {"usage", "usage2"}
\* the position in render_services of the service whose statement raises
FailedService(fail) == IF fail = "usage" THEN 1 ELSE 2

HasUsage(row) == row.uses_render /\ row.render_services # <<>>

\* the statements of an iteration run on the connection one by one, outside
\* any transaction: those before a skip or a failure persist
RolledBack(before, after) == before
Persisted(before, after) == after

\* one iteration of the loop of load_to_analytics_simple on the tables
\* (dim, seq, facts, usage): the tables it leaves and how it ended.
LoadIteration(dim, seq, facts, usage, row, idx, rows, today, part, fail) ==
    LET same == [dim |-> dim, seq |-> seq, facts |-> facts, usage |-> usage,
                 wrote |-> FALSE, nokey |-> {}]
        dim1 == DimUpsert(dim, seq, row)
        seq1 == IF RepoKey(dim, row.repo_full_name) = NoKey
                THEN seq + 1 ELSE seq
        rk == RepoKey(dim1, row.repo_full_name)
        lk == LanguageKey(row.language)
        afterDim == [same EXCEPT !.dim = dim1, !.seq = seq1]
        facts1 == FactUpsert(facts, rk, lk, today, row.stars,
                             MomentumScore(row, rows, today, part), idx)
        afterFact == [afterDim EXCEPT !.facts = facts1, !.wrote = TRUE]
        svc == row.render_services
    IN  IF ~TruthySeq(row.repo_full_name)
        THEN same @@ [end |-> "noname"]
        ELSE IF fail = "dim" THEN same @@ [end |-> "failed"]
        ELSE IF fail = "fact"
             THEN Persisted(same, afterDim) @@ [end |-> "failed"]
        ELSE IF KeysMissing(rk, lk)
             THEN Persisted(same, afterDim) @@ [end |-> "skipped"]
        ELSE IF ~HasUsage(row) THEN afterFact @@ [end |-> "loaded"]
        ELSE IF fail \in UsageFailures /\ FailedService(fail) <= Len(svc)
             THEN LET before == SubSeq(svc, 1, FailedService(fail) - 1)
                  IN  Persisted(same,
                          [afterFact EXCEPT
                              !.usage = UsageUpsert(usage, rk, today, row,
                                                    before),
                              !.nokey = {<<idx, before[k]>> : k \in
                                            {j \in DOMAIN before :
                                                ServiceKey(before[j])
                                                    = NoKey}}])
                      @@ [end |-> "failed"]
        ELSE [afterFact EXCEPT
                 !.usage = UsageUpsert(usage, rk, today, row, svc),
                 !.nokey = {<<idx, svc[k]>> : k \in
                               {j \in DOMAIN svc : ServiceKey(svc[j]) = NoKey}}]
             @@ [end |-> "loaded"]

\* except Exception as e: ... continue
RowExceptionEscapes == FALSE
RowExceptionCaught == TRUE

\* aggregate_results calls load_to_analytics_simple(repos, conn): today and
\* now are read; the execution runs on the day of the previous one or,
\* below the horizon, on the next day
LoadStart(rows, nextDay, part) ==
    /\ load_pc = "idle"
    /\ loads < MaxLoads
    /\ nextDay => (loads >= 1 /\ load_today = Today)
    /\ (~nextDay /\ loads >= 1) => part >= load_part
    /\ loads' = loads + 1
    /\ load_pc' = "loop"
    /\ load_rows' = rows
    /\ load_idx' = 1
    /\ load_today' = IF nextDay THEN load_today + 1 ELSE load_today
    /\ load_part' = part
    /\ prevLoad' = [rows |-> load_rows, today |-> load_today,
                    part |-> load_part, wrote |-> load_wrote]
    /\ factsBefore' = fact_repo_snapshots
    /\ load_attempted' = {}
    /\ load_failed' = {}
    /\ load_skipped' = {}
    /\ load_nokey' = {}
    /\ load_wrote' = {}
    /\ load_raised' = FALSE
    /\ load_last' = [idx |-> 0, end |-> "none", fail |-> "none"]
    /\ UNCHANGED <<tableVars, latestFact, fnVars>>
    /\ UNCHANGED <<batchVars, storeVars, histVars, apiVars, runVars, now>>

\* one iteration of `for idx, repo in enumerate(repos, 1)`
LoadRow(fail) ==
    /\ load_pc = "loop"
    /\ load_idx <= Len(load_rows)
    /\ \E row \in {load_rows[load_idx]} :
       \E r \in {LoadIteration(dim_repositories, repo_key_seq,
                               fact_repo_snapshots, fact_render_usage, row,
                               load_idx, load_rows, load_today, load_part,
                               fail)} :
           /\ dim_repositories' = r.dim
           /\ repo_key_seq' = r.seq
           /\ fact_repo_snapshots' = r.facts
           /\ fact_render_usage' = r.usage
           /\ load_attempted' = load_attempted \cup {load_idx}
           /\ load_failed' = IF r.end = "failed"
                             THEN load_failed \cup {load_idx} ELSE load_failed
           /\ load_skipped' = IF r.end = "skipped"
                              THEN load_skipped \cup {load_idx}
                              ELSE load_skipped
           /\ load_nokey' = load_nokey \cup r.nokey
           /\ load_wrote' = IF r.wrote THEN load_wrote \cup {load_idx}
                            ELSE load_wrote
           /\ load_last' = [idx |-> load_idx, end |-> r.end,
                            fail |-> IF r.end = "failed" THEN fail
                                     ELSE "none"]
           /\ latestFact' =
                 IF r.wrote
                 THEN (row.repo_full_name :>
                          [stars |-> row.stars,
                           momentum_score |->
                               MomentumScore(row, load_rows, load_today,
                                             load_part),
                           rank_overall |-> load_idx,
                           snapshot_date |-> load_today]) @@ latestFact
                 ELSE latestFact
           /\ IF r.end = "failed" /\ ~RowExceptionCaught
              THEN /\ load_raised' = TRUE
                   /\ load_pc' = "idle"
                   /\ UNCHANGED load_idx
              ELSE /\ load_idx' = load_idx + 1
                   /\ UNCHANGED <<load_raised, load_pc>>
    /\ UNCHANGED <<load_rows, load_today, load_part, loads, factsBefore,
                   prevLoad, fnVars>>
    /\ UNCHANGED <<batchVars, storeVars, histVars, apiVars, runVars, now>>

\* the loop is exhausted: load_to_analytics_simple returns
LoadReturn ==
    /\ load_pc = "loop"
    /\ load_idx > Len(load_rows)
    /\ load_pc' = "idle"
    /\ UNCHANGED <<tableVars, load_rows, load_idx, load_today, load_part,
                   loads, load_attempted, load_failed, load_raised,
                   load_skipped, load_nokey, load_wrote, factsBefore, prevLoad,
                   latestFact, load_last, fnVars>>
    /\ UNCHANGED <<batchVars, storeVars, histVars, apiVars, runVars, now>>

InitLoadSpec ==
    /\ InitBatch(<<>>, {})
    /\ InitStore
    /\ InitHist
    /\ InitClient
    /\ InitTables
    /\ InitLoad(<<>>)
    /\ InitRun
    /\ InitFn
    /\ now = 0

NextLoad ==
    \/ \E rows \in LoadInputs, nextDay \in BOOLEAN, part \in {0, 1} :
          LoadStart(rows, nextDay, part)
    \/ \E fail \in FailPoints : LoadRow(fail)
    \/ LoadReturn

SpecLoad == InitLoadSpec /\ [][NextLoad]_vars

----------------------------------------------------------------------------
(* Claims on the Load, checked under SpecLoad                              *)

LoadReturned == load_pc = "idle" /\ loads >= 1
NameOfKey(rk) ==
    {d.repo_full_name : d \in {e \in dim_repositories : e.repo_key = rk}}
\* the fact rows of today for the repository of row i of the execution
FactsOfRow(i) ==
    {f \in fact_repo_snapshots :
        /\ f.snapshot_date = load_today
        /\ load_rows[i].repo_full_name \in NameOfKey(f.repo_key)}
UsageOfRow(i) ==
    {u \in fact_render_usage :
        /\ u.snapshot_date = load_today
        /\ load_rows[i].repo_full_name \in NameOfKey(u.repo_key)}
KeyedServices(row) ==
    {row.render_services[k] : k \in {j \in DOMAIN row.render_services :
        ServiceKey(row.render_services[j]) # NoKey}}

\* C11: referential integrity: every fact snapshot row references an
\* existing repository key and an existing language key, every usage-fact
\* row an existing repository key and service key; a row skipped for a
\* failed lookup wrote no fact row, and a service type without
\* service-dimension entry wrote no usage-fact row.
C11_ReferentialIntegrity ==
    /\ \A f \in fact_repo_snapshots :
          /\ \E d \in dim_repositories : d.repo_key = f.repo_key
          /\ \E l \in DOMAIN dim_languages : dim_languages[l] = f.language_key
    /\ \A u \in fact_render_usage :
          /\ \E d \in dim_repositories : d.repo_key = u.repo_key
          /\ \E t \in DOMAIN dim_render_services :
                dim_render_services[t] = u.service_key
    /\ \A i \in load_skipped : FactsOfRow(i) \subseteq factsBefore
    /\ \A p \in load_nokey :
          Cardinality(UsageOfRow(p[1]))
              <= Cardinality(KeyedServices(load_rows[p[1]]))
\* an execution skipped the row of an unknown language and wrote the usage
\* row of one of two declared service types
C11_Witness ==
    /\ LoadReturned
    /\ load_skipped # {}
    /\ \E i \in DOMAIN load_rows :
          /\ <<i, "cron_x">> \in load_nokey
          /\ Cardinality(UsageOfRow(i)) = 1
          /\ FactsOfRow(i) # {}

\* C12: an exception raised while loading a row is caught: no exception
\* leaves load_to_analytics_simple, the loop goes on to every later row, and
\* the call returns after attempting every row.
C12_RowFailureContained ==
    /\ ~load_raised
    /\ loads >= 1 => load_attempted = 1..(load_idx - 1)
    /\ LoadReturned => load_attempted = DOMAIN load_rows
\* the first row failed and a later row was loaded
C12_Witness ==
    /\ LoadReturned
    /\ 1 \in load_failed
    /\ \E i \in DOMAIN load_rows :
          i > 1 /\ i \notin load_failed /\ FactsOfRow(i) # {}

OneFactPerRepoAndDay ==
    \A f1, f2 \in fact_repo_snapshots :
        (/\ f1.snapshot_date = f2.snapshot_date
         /\ NameOfKey(f1.repo_key) = NameOfKey(f2.repo_key)) => f1 = f2
FactsOfLatestLoad ==
    \A f \in fact_repo_snapshots :
        \A n \in NameOfKey(f.repo_key) :
            (n \in DOMAIN latestFact
             /\ latestFact[n].snapshot_date = f.snapshot_date)
            => /\ f.stars = latestFact[n].stars
               /\ f.momentum_score = latestFact[n].momentum_score
               /\ f.rank_overall = latestFact[n].rank_overall
\* the execution that just returned repeated the previous one: same rows,
\* same date
Rerun ==
    /\ LoadReturned /\ loads >= 2
    /\ prevLoad.rows = load_rows
    /\ prevLoad.today = load_today
SameRecency ==
    \A i \in DOMAIN load_rows :
        calculate_recency_score(load_rows[i].created_at, load_today,
                                prevLoad.part)
        = calculate_recency_score(load_rows[i].created_at, load_today,
                                  load_part)
\* the fact rows the execution added, removed or overwrote
FactsChanged ==
    (fact_repo_snapshots \ factsBefore) \cup (factsBefore \ fact_repo_snapshots)
\* the names of the rows whose fact upsert did not run in the previous
\* execution (the row was skipped, or its iteration raised before it)
UnwrittenBefore ==
    {load_rows[i].repo_full_name : i \in DOMAIN load_rows \ prevLoad.wrote}

\* C13 as stated: at most one fact row per repository and date, with the
\* numeric fields of the latest load, and a re-run on the same rows leaves
\* the fact table unchanged.
C13_RerunLeavesFactsUnchanged ==
    /\ OneFactPerRepoAndDay
    /\ FactsOfLatestLoad
    /\ Rerun => fact_repo_snapshots = factsBefore
\* C13 amended: at most one fact row per repository and date, with the
\* stars, momentum score and rank of the latest load; a re-run on the same
\* rows, if no row's recency score changed between the two executions,
\* changes no fact row but those of the rows whose fact upsert did not run
\* in the earlier execution, and leaves the fact table unchanged when the
\* earlier execution wrote the fact row of every row.
C13_FactsIdempotentPerDay ==
    /\ OneFactPerRepoAndDay
    /\ FactsOfLatestLoad
    /\ (Rerun /\ SameRecency) =>
          /\ \A f \in FactsChanged :
                NameOfKey(f.repo_key) \subseteq UnwrittenBefore
          /\ UnwrittenBefore = {} => fact_repo_snapshots = factsBefore
\* an execution repeated the previous one of the same date on rows whose
\* recency score did not change: it left the fact row the earlier execution
\* had written as it was and added the fact row of a row whose iteration had
\* raised before its fact upsert in the earlier execution
C13_Witness ==
    /\ Rerun /\ SameRecency
    /\ prevLoad.wrote # {}
    /\ UnwrittenBefore # {}
    /\ factsBefore # {}
    /\ factsBefore \subseteq fact_repo_snapshots
    /\ fact_repo_snapshots # factsBefore
    /\ load_failed = {}

CurrentRows(name) ==
    {d \in dim_repositories : d.repo_full_name = name /\ d.is_current}

\* C14: the repository dimension holds at most one current row per full
\* name and one row per key; a row whose dimension upsert ran has exactly
\* one current row, whether its name was absent or present before.
C14_OneCurrentRowPerName ==
    /\ \A d1, d2 \in dim_repositories :
          /\ (d1.is_current /\ d2.is_current
              /\ d1.repo_full_name = d2.repo_full_name) => d1 = d2
          /\ d1.repo_key = d2.repo_key => d1 = d2
    /\ \A i \in load_attempted \ load_failed :
          Cardinality(CurrentRows(load_rows[i].repo_full_name)) = 1
\* a name loaded twice with different attributes has one current row, with
\* the attributes of the second load
C14_Witness ==
    /\ LoadReturned /\ loads >= 2
    /\ prevLoad.rows[1] = RowA /\ load_rows[1] = RowA2
    /\ 1 \notin load_failed
    /\ \E d \in dim_repositories :
          /\ d.repo_full_name = RowA.repo_full_name
          /\ d.description = RowA2.description
    /\ Cardinality(dim_repositories) >= 2

\* the star counts of the cohort (general or uses_render) of row i, and the
\* largest of them
CohortStars(i) ==
    {load_rows[j].stars : j \in {k \in DOMAIN load_rows :
        load_rows[k].uses_render = load_rows[i].uses_render}}
CohortTop(i) == CHOOSE m \in CohortStars(i) : \A x \in CohortStars(i) : x <= m
RowLoaded(i) == i \in load_attempted \ (load_failed \cup load_skipped)

\* C33: the normalization base of a row is the largest star count of its
\* own cohort (general or uses_render) among the extracted rows; for a
\* non-negative star count the normalized value is stars / base, within
\* [0, 1], 1 for the row holding the cohort maximum and 0 when the cohort
\* maximum is 0; the recency component lies in [0, 1]; the momentum score
\* written is the mean of the two.
C33_CohortNormalization ==
    \A i \in DOMAIN load_rows :
        load_rows[i].stars >= 0 =>
            LET row == load_rows[i]
                top == CohortTop(i)
                ns == NormalizedStars(row, load_rows)
                rec == calculate_recency_score(row.created_at, load_today,
                                               load_part)
            IN  /\ ns.den > 0
                /\ 0 <= ns.num /\ ns.num <= ns.den
                /\ top > 0 => ns.num * top = row.stars * ns.den
                /\ (top > 0 /\ row.stars = top) => ns.num = ns.den
                /\ top = 0 => ns.num = 0
                /\ rec \in 0..100
                /\ RowLoaded(i) =>
                      \A f \in FactsOfRow(i) :
                          f.momentum_score =
                              IF top > 0
                              THEN Fraction(100 * row.stars + rec * top,
                                            200 * top)
                              ELSE Fraction(rec, 200)
\* one execution loaded o/b, top of the uses_render cohort with 30 stars
\* beside a general row of 130 stars, with momentum 1; the next loaded
\* o/z, alone in its cohort with 0 stars, with momentum 0.75 / 2
C33_Witness ==
    /\ LoadReturned /\ loads >= 2
    /\ prevLoad.rows = <<RowA2, RowB, RowR>>
    /\ load_rows = <<RowA, RowZ>>
    /\ RowLoaded(2)
    /\ \E f \in FactsOfRow(2) : f.momentum_score = [num |-> 3, den |-> 8]
    /\ \E d \in dim_repositories, f \in fact_repo_snapshots :
          /\ d.repo_full_name = RowB.repo_full_name
          /\ f.repo_key = d.repo_key
          /\ f.stars = 30
          /\ f.momentum_score = [num |-> 1, den |-> 1]

\* row i of this execution was processed without an exception (loaded, or
\* skipped for a missing key after its dimension upsert)
DimUpsertRan(i) ==
    /\ i \in load_attempted \ load_failed
    /\ TruthySeq(load_rows[i].repo_full_name)

\* C34: after the load has processed a row, the current dimension row of
\* its full name carries the row's URL, description, README, language,
\* creation time, uses_render flag and usage category, whether the row was
\* inserted or overwritten on conflict.
C34_DimensionMirrorsRow ==
    \A i \in DOMAIN load_rows :
        DimUpsertRan(i) =>
            \A d \in CurrentRows(load_rows[i].repo_full_name) :
                /\ d.repo_url = load_rows[i].repo_url
                /\ d.description = load_rows[i].description
                /\ d.readme_content = load_rows[i].readme_content
                /\ d.language = load_rows[i].language
                /\ d.created_at = load_rows[i].created_at
                /\ d.uses_render = load_rows[i].uses_render
                /\ load_rows[i].render_category # None
                      => d.render_category = load_rows[i].render_category

\* what the code guarantees: the four columns of the DO UPDATE SET list
\* follow the row on insert and on conflict; the category written is the
\* constant 'community'
C34_UpdatedColumnsMirrorRow ==
    \A i \in DOMAIN load_rows :
        DimUpsertRan(i) =>
            /\ CurrentRows(load_rows[i].repo_full_name) # {}
            /\ \A d \in CurrentRows(load_rows[i].repo_full_name) :
                  /\ d.repo_url = load_rows[i].repo_url
                  /\ d.description = load_rows[i].description
                  /\ d.readme_content = load_rows[i].readme_content
                  /\ d.uses_render = load_rows[i].uses_render
                  /\ d.render_category = "community"

\* the row of the last loop iteration and what the tables hold for it
LastRow == load_rows[load_last.idx]
LastDimensionWritten ==
    /\ CurrentRows(LastRow.repo_full_name) # {}
    /\ \A d \in CurrentRows(LastRow.repo_full_name) :
          /\ d.repo_url = LastRow.repo_url
          /\ d.description = LastRow.description
          /\ d.readme_content = LastRow.readme_content
          /\ d.uses_render = LastRow.uses_render
IterationEnded(ends) ==
    /\ load_pc = "loop"
    /\ load_last'.idx = load_idx
    /\ load_last'.end \in ends

\* C39 as stated: a row that is skipped for a missing language key, or that
\* fails with an exception after its dimension upsert, leaves its dimension
\* row inserted or updated and writes no fact snapshot and no usage row.
C39_SkipOrFailureWritesNoFact ==
    [][(IterationEnded({"skipped", "failed"}) /\ load_last'.fail # "dim") =>
          /\ LastDimensionWritten'
          /\ fact_repo_snapshots' = fact_repo_snapshots
          /\ fact_render_usage' = fact_render_usage]_vars

\* C39: the dimension upsert of a row is applied before the key lookups and
\* persists: a row skipped for a missing language key, or failing after the
\* dimension upsert and before its fact upsert completes, leaves its
\* dimension row inserted or updated and writes no fact snapshot and no usage
\* row; a row failing in the usage loop has also written its fact snapshot
\* of the day (and the usage rows of the services before the failing
\* statement).
C39_DimensionUpsertBeforeLookups ==
    [][(IterationEnded({"skipped", "failed"}) /\ load_last'.fail # "dim") =>
          /\ LastDimensionWritten'
          /\ load_last'.end = "skipped" =>
                LanguageKey(load_rows[load_idx].language) = NoKey
          /\ load_last'.fail \notin UsageFailures =>
                /\ fact_repo_snapshots' = fact_repo_snapshots
                /\ fact_render_usage' = fact_render_usage
          /\ load_last'.fail \in UsageFailures =>
                \E f \in fact_repo_snapshots' :
                    /\ f.snapshot_date = load_today
                    /\ f.stars = load_rows[load_idx].stars
                    /\ load_rows[load_idx].repo_full_name
                           \in NameOfKey(f.repo_key)']_vars
\* the first execution: its first row failed between the dimension upsert
\* and the fact upsert, its last row was skipped for its language; both
\* have a dimension row and neither has a fact snapshot or a usage row
C39_Witness ==
    /\ LoadReturned
    /\ loads = 1
    /\ load_rows = <<RowA2, RowB, RowR>>
    /\ 1 \in load_failed
    /\ load_last = [idx |-> 3, end |-> "skipped", fail |-> "none"]
    /\ LastDimensionWritten
    /\ CurrentRows(RowA2.repo_full_name) # {}
    /\ FactsOfRow(1) = {} /\ UsageOfRow(1) = {}
    /\ FactsOfRow(3) = {} /\ UsageOfRow(3) = {}

----------------------------------------------------------------------------
(* Part 5: the scoring functions applied to arbitrary records              *)

\* days between the update (or creation) time of a record and the run
UpdateAges == {0, 1, 2, 7, 8, 30, 31, 90, 91}
CreateAges == {14, 15, 40, 200}

\* an integer field: absent from the record, or present with a value
Absent == [has |-> FALSE, v |-> 0]
Present(n) == [has |-> TRUE, v |-> n]
StarChoices == {Absent, Present(-5), Present(0), Present(100)}
ForkChoices == {Absent, Present(-1), Present(150), Present(300)}
DateChoices(ages) == {NoDate, BadDate} \cup {Iso(Today - a) : a \in ages}

\* the dict passed to calculate_data_quality_score; a string field that is
\* missing reads as None, a missing timestamp as NoDate
QualityRecord(fn, url, lang, desc, st, fk, created, updated) ==
    LET base == [repo_full_name |-> fn, repo_url |-> url, language |-> lang,
                 description |-> desc, created_at |-> created,
                 updated_at |-> updated]
        withStars == IF st.has THEN base @@ [stars |-> st.v] ELSE base
    IN  IF fk.has THEN withStars @@ [forks |-> fk.v] ELSE withStars

\* the scoring functions are applied to q_repo
ScoreApply ==
    /\ ~q_out.done
    /\ q_out' = [done |-> TRUE,
                 completeness |-> calculate_completeness_score(q_repo),
                 freshness |-> calculate_freshness_score(q_repo, Today),
                 validity |-> calculate_validity_score(q_repo),
                 total |-> calculate_data_quality_score(q_repo, Today),
                 recency |-> calculate_recency_score(q_repo.created_at,
                                                     Today, 1)]
    /\ UNCHANGED <<q_repo, r_in, r_out, d_in, d_out, s_in, s_out>>
    /\ UNCHANGED <<batchVars, storeVars, histVars, apiVars, runVars, tableVars,
                   loadVars, now>>

InitScore ==
    /\ InitBatch(<<>>, {})
    /\ InitStore
    /\ InitHist
    /\ InitClient
    /\ InitTables
    /\ InitLoad(<<>>)
    /\ InitRun
    /\ \E fn \in {<<>>, <<"o", "/", "a">>}, url \in {None, "url"},
          lang \in {None, "Go", "Unknown"}, desc \in {None, "desc"},
          st \in StarChoices, fk \in ForkChoices,
          created \in DateChoices(CreateAges),
          updated \in DateChoices(UpdateAges) :
          q_repo = QualityRecord(fn, url, lang, desc, st, fk, created, updated)
    /\ q_out = NotApplied
    /\ r_in = <<>>
    /\ r_out = NotApplied
    /\ d_in = <<>>
    /\ d_out = NotApplied
    /\ s_in = NoSearch
    /\ s_out = NotApplied
    /\ now = 0

NextScore == ScoreApply

SpecScore == InitScore /\ [][NextScore]_vars

----------------------------------------------------------------------------
(* Claims about the scoring functions (SpecScore)                          *)

Updated == q_repo.updated_at
Created == q_repo.created_at
StarsOf(repo) == IF "stars" \in DOMAIN repo THEN repo.stars ELSE 0
ForksOf(repo) == IF "forks" \in DOMAIN repo THEN repo.forks ELSE 0

\* C15: for every record, missing fields, negative counts and zero stars
\* included, the quality score lies in [0.0, 1.0] and is
\* 0.4*completeness + 0.3*freshness + 0.3*validity rounded to two decimals
\* (components in [0, 1]; the total, in hundredths, is the nearest hundredth
\* of the weighted sum, which is held in 1/3000).
C15_QualityScoreWeightedAndBounded ==
    q_out.done =>
        LET weighted3000 == 4 * q_out.completeness + 90 * q_out.freshness
                          + 90 * q_out.validity
        IN  /\ q_out.completeness \in 0..300
            /\ q_out.freshness \in 0..10
            /\ q_out.validity \in 0..10
            /\ q_out.total \in 0..100
            /\ 30 * q_out.total - weighted3000 \in -15..15

\* a record without name, url, language and stars, with a negative fork
\* count, has been scored
C15_Witness ==
    /\ q_out.done
    /\ q_repo.repo_full_name = <<>>
    /\ q_repo.language = None
    /\ "stars" \notin DOMAIN q_repo
    /\ ForksOf(q_repo) < 0
    /\ q_out.total < 50

FreshnessStep(d) ==
    IF d <= 1 THEN 10 ELSE IF d <= 7 THEN 9 ELSE IF d <= 30 THEN 7
    ELSE IF d <= 90 THEN 5 ELSE 3

\* C16: freshness is the step function of the whole days d since the last
\* update (d<=1 -> 1.0, d<=7 -> 0.9, d<=30 -> 0.7, d<=90 -> 0.5, else 0.3),
\* and 0.5 when the update time is unknown or unparsable; d = 1 gives 1.0
\* and d = 8 gives 0.7.
C16_FreshnessStepFunction ==
    q_out.done =>
        IF Updated.kind = "iso"
        THEN /\ q_out.freshness = FreshnessStep(Today - Updated.day)
             /\ (Today - Updated.day = 1 => q_out.freshness = 10)
             /\ (Today - Updated.day = 8 => q_out.freshness = 7)
        ELSE q_out.freshness = 5

C16_Witness ==
    /\ q_out.done
    /\ Updated = Iso(Today - 8)
    /\ q_out.freshness = 7

RecencyStep(a) ==
    IF a <= 14 THEN 100 ELSE IF a <= 30 THEN 85 ELSE IF a <= 60 THEN 60
    ELSE IF a <= 90 THEN 35 ELSE IF a <= 180 THEN 15
    ELSE IF a <= 365 THEN 5 ELSE 1

\* C17: the recency score is the step function of the age a in days
\* (a<=14 -> 1.0, a<=30 -> 0.85, a<=60 -> 0.60, a<=90 -> 0.35,
\* a<=180 -> 0.15, a<=365 -> 0.05, else 0.01); age 15 gives 0.85.
C17_RecencyStepFunction ==
    (q_out.done /\ Created.kind = "iso") =>
        q_out.recency = RecencyStep(Today - Created.day)

\* what the code computes: age <= 30 -> 1.0, <= 60 -> 0.75, <= 90 -> 0.5,
\* older -> 0.0
C17_RecencyOfCode ==
    (q_out.done /\ Created.kind = "iso") =>
        LET a == Today - Created.day
        IN  q_out.recency = IF a <= 30 THEN 100 ELSE IF a <= 60 THEN 75
                            ELSE IF a <= 90 THEN 50 ELSE 0

DatesInverted(repo) ==
    /\ repo.created_at.kind = "iso"
    /\ repo.updated_at.kind = "iso"
    /\ repo.created_at.day > repo.updated_at.day

LanguageUnrecognized(repo) ==
    repo.language = None \/ repo.language \notin valid_languages

\* C18 as stated: validity is 1.0 minus every applicable penalty, where the
\* ratio penalty applies whenever forks > 2 x stars.
C18_EveryPenaltyApplied ==
    q_out.done =>
        q_out.validity =
            Max(0, 10 - (IF StarsOf(q_repo) < 0 THEN 3 ELSE 0)
                      - (IF ForksOf(q_repo) < 0 THEN 2 ELSE 0)
                      - (IF ForksOf(q_repo) > 2 * StarsOf(q_repo)
                         THEN 1 ELSE 0)
                      - (IF DatesInverted(q_repo) THEN 2 ELSE 0)
                      - (IF LanguageUnrecognized(q_repo) THEN 1 ELSE 0))

\* C18: validity is 1.0 minus the sum of the applicable penalties, floored
\* at 0.0: negative stars 0.3, negative forks 0.2, forks > 2 x stars 0.1
\* only when the star count is positive, creation after update 0.2 (both
\* dates parsable), unrecognized or missing language 0.1.
C18_ValidityPenalties ==
    q_out.done =>
        q_out.validity =
            Max(0, 10 - (IF StarsOf(q_repo) < 0 THEN 3 ELSE 0)
                      - (IF ForksOf(q_repo) < 0 THEN 2 ELSE 0)
                      - (IF StarsOf(q_repo) > 0
                            /\ ForksOf(q_repo) > 2 * StarsOf(q_repo)
                         THEN 1 ELSE 0)
                      - (IF DatesInverted(q_repo) THEN 2 ELSE 0)
                      - (IF LanguageUnrecognized(q_repo) THEN 1 ELSE 0))

\* forks = 300, stars = 100, language 'Unknown' scored 0.8
C18_Witness ==
    /\ q_out.done
    /\ StarsOf(q_repo) = 100
    /\ ForksOf(q_repo) = 300
    /\ q_repo.language = "Unknown"
    /\ ~DatesInverted(q_repo)
    /\ q_out.validity = 8

----------------------------------------------------------------------------
(* Part 6: transform_and_rank (workflows/etl/transform.py)                 *)

MaxRanked == 4
overall_limit == 100
per_language_limit == 50
NoRank == 0

RankedRepo(stars, momentum, lang) ==
    [stars |-> stars, momentum_score |-> momentum, language |-> lang]
RankChoices == {RankedRepo(st, m, l) : st \in {10, 30, 50}, m \in {1, 5},
                                       l \in {"Go", "Python"}}
RankInputs == UNION {[1..n -> RankChoices] : n \in 0..MaxRanked}

\* position (from 1) of rs[i] in sorted(group, key=momentum_score,
\* reverse=True): the sort is stable, equal keys keep their earlier order
SortedPosition(rs, group, i) ==
    1 + Cardinality({j \in group :
            \/ rs[j].momentum_score > rs[i].momentum_score
            \/ /\ rs[j].momentum_score = rs[i].momentum_score
               /\ j < i})

SameLanguage(rs, i) ==
    {j \in DOMAIN rs : rs[j].language = rs[i].language}

transform_and_rank(rs) ==
    IF rs = <<>> THEN <<>>
    ELSE LET overall(i) == SortedPosition(rs, DOMAIN rs, i)
             inlang(i) == SortedPosition(rs, SameLanguage(rs, i), i)
             marked == [i \in DOMAIN rs |->
                 rs[i] @@
                 [rank_overall |-> IF overall(i) <= overall_limit
                                   THEN overall(i) ELSE NoRank,
                  rank_in_language |-> IF inlang(i) <= per_language_limit
                                       THEN inlang(i) ELSE NoRank]]
             ranked(r) == r.rank_overall # NoRank
                          \/ r.rank_in_language # NoRank
         IN  SelectSeq(marked, ranked)

RankApply ==
    /\ ~r_out.done
    /\ r_out' = [done |-> TRUE, ranked |-> transform_and_rank(r_in)]
    /\ UNCHANGED <<q_repo, q_out, r_in, d_in, d_out, s_in, s_out>>
    /\ UNCHANGED <<batchVars, storeVars, histVars, apiVars, runVars, tableVars,
                   loadVars, now>>

InitRank ==
    /\ InitBatch(<<>>, {})
    /\ InitStore
    /\ InitHist
    /\ InitClient
    /\ InitTables
    /\ InitLoad(<<>>)
    /\ InitRun
    /\ q_repo = <<>>
    /\ q_out = NotApplied
    /\ r_in \in RankInputs
    /\ r_out = NotApplied
    /\ d_in = <<>>
    /\ d_out = NotApplied
    /\ s_in = NoSearch
    /\ s_out = NotApplied
    /\ now = 0

NextRank == RankApply

SpecRank == InitRank /\ [][NextRank]_vars

\* C19: within one language the rank ordinals are 1, 2, 3, ... in
\* descending star-count order, equal star counts keeping their original
\* order.
C19_PerLanguageRankByStars ==
    r_out.done =>
        \A i, j \in DOMAIN r_out.ranked :
            LET a == r_out.ranked[i]
                b == r_out.ranked[j]
            IN  (a.language = b.language
                 /\ (a.stars > b.stars \/ (a.stars = b.stars /\ i < j)))
                => a.rank_in_language < b.rank_in_language

\* what the code computes: the ordinals follow the momentum score
C19_RankOfCode ==
    r_out.done =>
        \A i, j \in DOMAIN r_out.ranked :
            LET a == r_out.ranked[i]
                b == r_out.ranked[j]
            IN  (a.language = b.language
                 /\ (a.momentum_score > b.momentum_score
                     \/ (a.momentum_score = b.momentum_score /\ i < j)))
                => a.rank_in_language < b.rank_in_language

----------------------------------------------------------------------------
(* Part 7: the usage detector (workflows/render_detection.py)              *)

\* what get_file_contents hands back: None, the empty string, a text, or an
\* exception (the detector accepts any client object)
FetchNone  == [kind |-> "none"]
FetchEmpty == [kind |-> "empty"]
FetchRaise == [kind |-> "raise"]

\* a render.yaml text, described by what yaml.safe_load makes of it:
\* "error" (not YAML), "null" (blank document), "list" (a YAML list, not a
\* mapping) or "map" with its services and databases entries.  The service
\* type "[list]" stands for a type written as a YAML list (unhashable).
YamlText(parsed, services, databases) ==
    [kind |-> "text", loads |-> parsed, services |-> services,
     databases |-> databases]
YamlChoices ==
    {FetchNone, FetchEmpty, FetchRaise,
     YamlText("error", <<>>, <<>>), YamlText("null", <<>>, <<>>),
     YamlText("list", <<>>, <<>>),
     YamlText("map", <<"web", "worker">>, <<"postgres">>),
     YamlText("map", <<"web", "web">>, <<>>),
     YamlText("map", <<"web", "[list]">>, <<>>),
     YamlText("map", <<"web", "worker", "cron", "pserv", "static", "web">>,
              <<"postgres">>)}

\* a Dockerfile text: whether it contains 'RENDER', and whether one of the
\* three patterns matches it
DockerText(env, pattern) ==
    [kind |-> "text", has_RENDER |-> env, pattern_found |-> pattern]
DockerChoices ==
    {FetchNone, FetchRaise, DockerText(FALSE, FALSE), DockerText(TRUE, FALSE),
     DockerText(FALSE, TRUE), DockerText(TRUE, TRUE)}

\* o/a, render/x (an official organization), x, and the empty name
NameChoices == {<<"o", "/", "a">>,
                <<"r", "e", "n", "d", "e", "r", "/", "x">>, <<"x">>, <<>>}
ReadmeChoices == {None, "readme", "render.com/deploy"}
TopicChoices == {<<>>, <<"render-blueprint">>}

EmptyDict == [empty |-> TRUE]
IsEmptyDict(d) == "empty" \in DOMAIN d

parse_render_yaml(content) ==
    IF content.loads \in {"error", "null", "list"} THEN EmptyDict
    ELSE [services |-> content.services, databases |-> content.databases,
          service_count |-> Len(content.services) + Len(content.databases)]

scan_dockerfile_for_render(content) ==
    IF content.kind # "text" THEN EmptyDict
    ELSE [uses_render_env |-> content.has_RENDER,
          render_specific_commands |-> content.pattern_found]

ConfigServices(cfg) == IF IsEmptyDict(cfg) THEN <<>> ELSE cfg.services
ConfigDatabases(cfg) == IF IsEmptyDict(cfg) THEN <<>> ELSE cfg.databases
ConfigCount(cfg) == IF IsEmptyDict(cfg) THEN 0 ELSE cfg.service_count

\* set(services) raises TypeError on an unhashable element
ComplexityRaises(cfg) ==
    \E k \in DOMAIN ConfigServices(cfg) : ConfigServices(cfg)[k] = "[list]"

\* variant: the points of a component are not capped
PointsUncapped(n, cap) == n
\* score += min(n, cap)
PointsUpTo(n, cap) == Min(n, cap)

calculate_render_complexity(cfg, docker) ==
    LET services == ConfigServices(cfg)
        unique_services == Cardinality({services[k] : k \in DOMAIN services})
        env == IF IsEmptyDict(docker) THEN 0 ELSE B2N(docker.uses_render_env)
        cmd == IF IsEmptyDict(docker) THEN 0
               ELSE B2N(docker.render_specific_commands)
    IN  Min(PointsUpTo(ConfigCount(cfg), 5) + PointsUpTo(unique_services, 3)
            + env + cmd, 10)

\* str.lower(): every capital letter becomes its small letter, every other
\* character stays
LowerOfCapital ==
    ("A" :> "a") @@ ("B" :> "b") @@ ("C" :> "c") @@ ("D" :> "d") @@
    ("E" :> "e") @@ ("F" :> "f") @@ ("G" :> "g") @@ ("H" :> "h") @@
    ("I" :> "i") @@ ("J" :> "j") @@ ("K" :> "k") @@ ("L" :> "l") @@
    ("M" :> "m") @@ ("N" :> "n") @@ ("O" :> "o") @@ ("P" :> "p") @@
    ("Q" :> "q") @@ ("R" :> "r") @@ ("S" :> "s") @@ ("T" :> "t") @@
    ("U" :> "u") @@ ("V" :> "v") @@ ("W" :> "w") @@ ("X" :> "x") @@
    ("Y" :> "y") @@ ("Z" :> "z")
LowerChar(c) == IF c \in DOMAIN LowerOfCapital THEN LowerOfCapital[c] ELSE c
Lower(str) == [k \in DOMAIN str |-> LowerChar(str[k])]

\* repo_full_name.split('/')[0] when the name holds a '/', else ''
OwnerOf(name) ==
    IF \E k \in DOMAIN name : name[k] = "/"
    THEN LET slash == CHOOSE k \in DOMAIN name :
                          /\ name[k] = "/"
                          /\ \A j \in 1..(k - 1) : name[j] # "/"
         IN  SubSeq(name, 1, slash - 1)
    ELSE <<>>

official_orgs == {<<"r", "e", "n", "d", "e", "r", "-", "e", "x", "a", "m",
                    "p", "l", "e", "s">>,
                  <<"r", "e", "n", "d", "e", "r">>}
\* RENDER_EMPLOYEE_GITHUB_ORGS is not set
employee_orgs == {}

\* reads the key 'repo_full_name', which the search candidate handed to the
\* detector does not carry (its key is 'full_name')
categorize_render_project(repo_data) ==
    LET repo_full_name == IF "repo_full_name" \in DOMAIN repo_data
                          THEN repo_data.repo_full_name ELSE <<>>
        owner == OwnerOf(repo_full_name)
        topics == repo_data.topics
    IN  IF Lower(owner) \in official_orgs THEN "official"
        ELSE IF \E k \in DOMAIN topics :
                    topics[k] \in {"render-blueprints", "render-blueprint"}
             THEN "blueprint"
        ELSE IF Lower(owner) \in employee_orgs THEN "employee"
        ELSE "community"

\* variant: the exception of a step leaves the detector
DetectExceptionEscapes == FALSE
\* 'except Exception' around the whole chain
DetectExceptionCaught == TRUE

NotInUse == [uses_render |-> FALSE]

\* a step of the chain raises: the marker fetch, the Dockerfile fetch, or
\* the complexity computation
ChainRaises(in) ==
    \/ in.yaml.kind = "raise"
    \/ /\ in.yaml.kind = "text"
       /\ \/ in.docker.kind = "raise"
          \/ ComplexityRaises(parse_render_yaml(in.yaml))

\* the value detect_render_usage returns (meaningful when nothing escapes)
detect_render_usage(in) ==
    IF InvalidFullName(in.full_name) THEN NotInUse
    ELSE IF ChainRaises(in) THEN NotInUse
    ELSE IF in.yaml.kind \in {"none", "empty"} THEN NotInUse
    ELSE LET render_config == parse_render_yaml(in.yaml)
             docker_patterns == scan_dockerfile_for_render(in.docker)
         IN  [uses_render |-> TRUE,
              render_category |-> categorize_render_project(in),
              services |-> ConfigServices(render_config),
              databases |-> ConfigDatabases(render_config),
              service_count |-> ConfigCount(render_config),
              complexity_score |->
                  calculate_render_complexity(render_config, docker_patterns),
              has_blueprint_button |-> in.readme_content = "render.com/deploy"]

DetectApply ==
    /\ ~d_out.done
    /\ d_out' = [done |-> TRUE,
                 raised |-> /\ ~InvalidFullName(d_in.full_name)
                            /\ ChainRaises(d_in)
                            /\ ~DetectExceptionCaught,
                 result |-> detect_render_usage(d_in)]
    /\ UNCHANGED <<q_repo, q_out, r_in, r_out, d_in, s_in, s_out>>
    /\ UNCHANGED <<batchVars, storeVars, histVars, apiVars, runVars, tableVars,
                   loadVars, now>>

InitDetect ==
    /\ InitBatch(<<>>, {})
    /\ InitStore
    /\ InitHist
    /\ InitClient
    /\ InitTables
    /\ InitLoad(<<>>)
    /\ InitRun
    /\ q_repo = <<>>
    /\ q_out = NotApplied
    /\ r_in = <<>>
    /\ r_out = NotApplied
    /\ \E fn \in NameChoices, y \in YamlChoices, d \in DockerChoices,
          rm \in ReadmeChoices, tp \in TopicChoices :
          d_in = [full_name |-> fn, yaml |-> y, docker |-> d,
                  readme_content |-> rm, topics |-> tp]
    /\ d_out = NotApplied
    /\ s_in = NoSearch
    /\ s_out = NotApplied
    /\ now = 0

NextDetect == DetectApply

SpecDetect == InitDetect /\ [][NextDetect]_vars

\* the marker file is absent (or empty)
MarkerAbsent == d_in.yaml.kind \in {"none", "empty"}
\* the marker text is not a YAML mapping
MarkerMalformed ==
    d_in.yaml.kind = "text" /\ d_in.yaml.loads \in {"error", "list"}

\* C20 as stated: the detector raises nothing and returns uses_render False
\* whenever the marker file is absent or a step of the chain fails,
\* malformed YAML included.
C20_AnyFailureNotInUse ==
    d_out.done =>
        /\ ~d_out.raised
        /\ (MarkerAbsent \/ MarkerMalformed \/ ChainRaises(d_in))
           => ~d_out.result.uses_render

\* C20: the detector raises nothing; it returns uses_render False when the
\* name is unusable, the marker file is absent or empty, or a step raises;
\* a marker that is present but malformed is parsed as empty and the result
\* is uses_render True with no services.
C20_DetectorNeverAborts ==
    d_out.done =>
        /\ ~d_out.raised
        /\ (InvalidFullName(d_in.full_name) \/ MarkerAbsent
            \/ ChainRaises(d_in)) => ~d_out.result.uses_render
        /\ (~InvalidFullName(d_in.full_name) /\ MarkerMalformed
            /\ ~ChainRaises(d_in))
           => /\ d_out.result.uses_render
              /\ d_out.result.services = <<>>
              /\ d_out.result.service_count = 0

\* a raising Dockerfile fetch after a well-formed marker ended in
\* "not in use"
C20_Witness ==
    /\ d_out.done
    /\ ~InvalidFullName(d_in.full_name)
    /\ d_in.yaml.kind = "text"
    /\ d_in.yaml.loads = "map"
    /\ d_in.docker.kind = "raise"
    /\ ~d_out.raised
    /\ ~d_out.result.uses_render

\* the owner of the candidate handed to the detector, and its topics
CandidateOwner == Lower(OwnerOf(d_in.full_name))
HasBlueprintTopic ==
    \E k \in DOMAIN d_in.topics :
        d_in.topics[k] \in {"render-blueprints", "render-blueprint"}
MarkerFound == d_out.done /\ d_out.result.uses_render

\* C35: when the detector finds a marker file, the category is 'official'
\* for an owner of the official organizations, else 'blueprint' for a
\* blueprint topic, else 'employee' for an owner of the configured employee
\* organizations, else 'community'.
C35_CategoryByOwnerAndTopics ==
    MarkerFound =>
        d_out.result.render_category =
            IF CandidateOwner \in official_orgs THEN "official"
            ELSE IF HasBlueprintTopic THEN "blueprint"
            ELSE IF CandidateOwner \in employee_orgs THEN "employee"
            ELSE "community"

\* what the code guarantees for a candidate of the orchestrator, whose name
\* is under 'full_name': the owner is never read, the category is
\* 'blueprint' for a blueprint topic and 'community' otherwise
C35_CategoryWithoutOwner ==
    MarkerFound =>
        d_out.result.render_category =
            IF HasBlueprintTopic THEN "blueprint" ELSE "community"

\* the detector reached calculate_render_complexity: the name is usable,
\* the marker text is there and the Dockerfile fetch did not raise
ComplexityCalled ==
    /\ d_out.done
    /\ ~InvalidFullName(d_in.full_name)
    /\ d_in.yaml.kind = "text"
    /\ d_in.docker.kind # "raise"
\* the parse of the marker text, read off the text itself
ParsedAsMap == d_in.yaml.loads = "map"
DeclaredCount ==
    IF ParsedAsMap THEN Len(d_in.yaml.services) + Len(d_in.yaml.databases)
    ELSE 0
DistinctTypes ==
    IF ParsedAsMap
    THEN Cardinality({d_in.yaml.services[k] : k \in DOMAIN d_in.yaml.services})
    ELSE 0
DockerPoints ==
    IF d_in.docker.kind # "text" THEN 0
    ELSE B2N(d_in.docker.has_RENDER) + B2N(d_in.docker.pattern_found)
ExpectedComplexity ==
    Min(DeclaredCount, 5) + Min(DistinctTypes, 3) + DockerPoints
UnhashableType ==
    ParsedAsMap /\ \E k \in DOMAIN d_in.yaml.services :
                      d_in.yaml.services[k] = "[list]"

\* C36 as stated: for every parsed configuration, the empty parse included,
\* calculate_render_complexity returns an integer in [0, 10] equal to
\* min(service count, 5) + min(distinct service types, 3) + one point for
\* the environment-variable marker + one point for a pattern match.
C36_ComplexityForEveryParse ==
    ComplexityCalled =>
        /\ d_out.result.uses_render
        /\ d_out.result.complexity_score \in 0..10
        /\ d_out.result.complexity_score = ExpectedComplexity

\* C36: for every parsed configuration whose service types are hashable
\* values, the empty parse included, calculate_render_complexity returns
\* the integer in [0, 10] given by that sum; a service type written as a
\* YAML list makes it raise TypeError, which the detector turns into
\* "not in use".
C36_ComplexityScore ==
    ComplexityCalled =>
        IF UnhashableType THEN ~d_out.result.uses_render
        ELSE /\ d_out.result.uses_render
             /\ d_out.result.complexity_score \in 0..10
             /\ d_out.result.complexity_score = ExpectedComplexity
\* seven declared entries of five distinct service types and a Dockerfile
\* with the environment-variable marker only: 5 + 3 + 1
C36_Witness ==
    /\ ComplexityCalled
    /\ DeclaredCount = 7 /\ DistinctTypes = 5
    /\ d_in.docker = DockerText(TRUE, FALSE)
    /\ d_out.result.uses_render
    /\ d_out.result.complexity_score = 9

----------------------------------------------------------------------------
(* Part 8: init_connections and cleanup_connections                        *)
(* (workflows/connections.py), with a caller of the shape of               *)
(* fetch_language_repos: init, try body, finally cleanup.                  *)

max_retries == 3
\* tasks of one run that call init_connections, one after the other
MaxConnCalls == 2

\* GITHUB_ACCESS_TOKEN: unset, set without a known prefix, or well-formed
TokenChoices == {"missing", "malformed", "ok"}
\* GitHubAPIClient(...).__aenter__() returns or raises
ClientChoices == {"ok", "raise"}
\* DATABASE_URL: unset or set
DatabaseUrlChoices == {"missing", "set"}

\* What one pass through the try block of the retry loop ends in, as
\* ic_outcomes records it: "ok", or the exception that create_pool or the
\* test query raised.
\* await asyncpg.create_pool(...): the pool, or one of the exceptions
CreatePoolOutcomes == {"created", "InvalidPasswordError",
                       "InvalidCatalogNameError", "CannotConnectNowError",
                       "Exception"}
\* async with db_pool.acquire() as conn: await conn.fetchval('SELECT 1')
\* returns, or raises; the except clauses choose by the type of the
\* exception wherever in the try block it arose
TestQueryOutcomes == {"ok", "InvalidPasswordError", "InvalidCatalogNameError",
                      "CannotConnectNowError", "Exception"}

\* variant: only the password error ends the loop at once
PoolFatalPasswordOnly(o) == o = "InvalidPasswordError"
\* the two except clauses that raise ConnectionError without retrying
PoolFatal(o) == o \in {"InvalidPasswordError", "InvalidCatalogNameError"}

\* if attempt < max_retries - 1: sleep and continue
PoolRetryAllowed(a) == a < max_retries - 1
\* asyncio.sleep(2 ** attempt)
PoolBackoffDelay(a) == Pow2(a)

ValueError == "ValueError"
ConnectionError == "ConnectionError"

\* positions in which the calling task has ended
TaskEnded == {"raised", "closed", "cleanup_raised"}

\* init_connections up to the retry loop: token checks, client session,
\* DATABASE_URL check
InitConnectionsStart(token, client, database_url) ==
    /\ ic_pc \in {"idle"} \cup TaskEnded
    /\ ic_calls < MaxConnCalls
    /\ ic_calls' = ic_calls + 1
    /\ ic_attempt' = 0
    /\ ic_outcomes' = <<>>
    /\ ic_sleeps' = <<>>
    /\ ic_env' = [token |-> token, client |-> client,
                  database_url |-> database_url]
    /\ IF token # "ok"
       THEN /\ ic_pc' = "raised"
            /\ ic_error' = ValueError
            /\ UNCHANGED session_open
       ELSE IF client = "raise"
       THEN /\ ic_pc' = "raised"
            /\ ic_error' = ConnectionError
            /\ UNCHANGED session_open
       ELSE IF database_url = "missing"
       THEN /\ ic_pc' = "raised"
            /\ ic_error' = ValueError
            /\ session_open' = session_open + 1
       ELSE /\ ic_pc' = "pool"
            /\ ic_error' = None
            /\ session_open' = session_open + 1
    /\ handles' = FALSE
    /\ UNCHANGED <<pools_open, ic_peer>>
    /\ UNCHANGED <<batchVars, storeVars, histVars, apiVars, etlVars, mainVars,
                   now>>

\* the except clauses of the retry loop, entered with the outcome o of the
\* pass: raise ConnectionError, or sleep and continue
PoolExcept(o) ==
    /\ ic_outcomes' = Append(ic_outcomes, o)
    /\ IF PoolFatal(o) \/ ~PoolRetryAllowed(ic_attempt)
       THEN /\ ic_pc' = "raised"
            /\ ic_error' = ConnectionError
            /\ UNCHANGED ic_sleeps
       ELSE /\ ic_pc' = "sleep"
            /\ ic_sleeps' = Append(ic_sleeps, PoolBackoffDelay(ic_attempt))
            /\ UNCHANGED ic_error
    /\ UNCHANGED handles

\* one pass through the body of 'for attempt in range(max_retries)', first
\* await: create_pool answers
PoolAttempt(o) ==
    /\ ic_pc = "pool"
    /\ o \in CreatePoolOutcomes
    /\ IF o = "created"
       THEN /\ ic_pc' = "test"
            /\ pools_open' = pools_open + 1
            /\ UNCHANGED <<ic_outcomes, ic_error, ic_sleeps, handles>>
       ELSE /\ PoolExcept(o)
            /\ UNCHANGED pools_open
    /\ UNCHANGED <<ic_calls, ic_env, ic_attempt, session_open, ic_peer>>
    /\ UNCHANGED <<batchVars, storeVars, histVars, apiVars, etlVars, mainVars,
                   now>>

\* second await of the pass: the test query on the pool just created
\* answers; init_connections returns, or the exception reaches the except
\* clauses with the pool left as it is
PoolTest(o) ==
    /\ ic_pc = "test"
    /\ o \in TestQueryOutcomes
    /\ IF o = "ok"
       THEN /\ ic_pc' = "returned"
            /\ ic_outcomes' = Append(ic_outcomes, o)
            /\ handles' = TRUE
            /\ UNCHANGED <<ic_error, ic_sleeps>>
       ELSE PoolExcept(o)
    /\ UNCHANGED <<ic_calls, ic_env, ic_attempt, session_open, pools_open,
                   ic_peer>>
    /\ UNCHANGED <<batchVars, storeVars, histVars, apiVars, etlVars, mainVars,
                   now>>

\* the backoff sleep ends; continue with the next attempt
PoolBackoffWake ==
    /\ ic_pc = "sleep"
    /\ ic_pc' = "pool"
    /\ ic_attempt' = ic_attempt + 1
    /\ now' = now + ic_sleeps[Len(ic_sleeps)]
    /\ UNCHANGED <<ic_calls, ic_env, ic_outcomes, ic_sleeps, ic_error,
                   session_open, pools_open, handles, ic_peer>>
    /\ UNCHANGED <<batchVars, storeVars, histVars, apiVars, etlVars, mainVars>>

\* cleanup_connections(github_api, db_pool) in the caller's finally, after
\* the body returned, returned early or raised. First await:
\* github_api.close(); when it raises, the exception leaves
\* cleanup_connections and db_pool.close() is not reached
CleanupConnections(body, closed) ==
    /\ ic_pc = "returned"
    /\ body \in {"completed", "early_return", "raised"}
    /\ IF closed
       THEN /\ ic_pc' = "cleanup"
            /\ session_open' = session_open - 1
            /\ UNCHANGED ic_error
       ELSE /\ ic_pc' = "cleanup_raised"
            /\ ic_error' = CloseError
            /\ UNCHANGED session_open
    /\ UNCHANGED <<ic_calls, ic_env, ic_attempt, ic_outcomes, ic_sleeps,
                   pools_open, handles, ic_peer>>
    /\ UNCHANGED <<batchVars, storeVars, histVars, apiVars, etlVars, mainVars,
                   now>>

\* second await of cleanup_connections: db_pool.close()
CleanupPool(closed) ==
    /\ ic_pc = "cleanup"
    /\ IF closed
       THEN /\ ic_pc' = "closed"
            /\ pools_open' = pools_open - 1
            /\ handles' = FALSE
            /\ UNCHANGED ic_error
       ELSE /\ ic_pc' = "cleanup_raised"
            /\ ic_error' = CloseError
            /\ UNCHANGED <<pools_open, handles>>
    /\ UNCHANGED <<ic_calls, ic_env, ic_attempt, ic_outcomes, ic_sleeps,
                   session_open>>
    /\ UNCHANGED ic_peer
    /\ UNCHANGED <<batchVars, storeVars, histVars, apiVars, etlVars, mainVars,
                   now>>

\* another fetch task of the same gather calls init_connections and
\* cleanup_connections while this one is under way: it has a client and a
\* pool of its own, and its awaits interleave with the ones above
\* (positions of ic_peer: idle, pool, test, returned, cleanup, raised, closed)
PeerStep(to, sessions, pools) ==
    /\ ic_peer' = to
    /\ session_open' = session_open + sessions
    /\ pools_open' = pools_open + pools
    /\ UNCHANGED <<ic_calls, ic_pc, ic_env, ic_attempt, ic_outcomes,
                   ic_sleeps, ic_error, handles>>
    /\ UNCHANGED <<batchVars, storeVars, histVars, apiVars, etlVars, mainVars,
                   now>>

\* its session is opened and DATABASE_URL read
PeerInitConnections ==
    /\ ic_peer = "idle"
    /\ PeerStep("pool", 1, 0)

\* its create_pool answers: the pool, or an exception that ends the loop
PeerPoolAttempt(o) ==
    /\ ic_peer = "pool"
    /\ o \in {"created", "InvalidPasswordError"}
    /\ IF o = "created" THEN PeerStep("test", 0, 1)
       ELSE PeerStep("raised", 0, 0)

\* its test query answers and its init_connections returns
PeerPoolTest ==
    /\ ic_peer = "test"
    /\ PeerStep("returned", 0, 0)

\* its cleanup_connections closes the session, then the pool
PeerCleanupConnections ==
    /\ ic_peer = "returned"
    /\ PeerStep("cleanup", 0 - 1, 0)

PeerCleanupPool ==
    /\ ic_peer = "cleanup"
    /\ PeerStep("closed", 0, 0 - 1)

InitConn ==
    /\ InitBatch(<<>>, {})
    /\ InitStore
    /\ InitHist
    /\ InitClient
    /\ InitTables
    /\ InitLoad(<<>>)
    /\ InitFn
    /\ InitRun
    /\ now = 0

NextConn ==
    \/ \E t \in TokenChoices, c \in ClientChoices, u \in DatabaseUrlChoices :
           InitConnectionsStart(t, c, u)
    \/ \E o \in CreatePoolOutcomes : PoolAttempt(o)
    \/ \E o \in TestQueryOutcomes : PoolTest(o)
    \/ PoolBackoffWake
    \/ \E b \in {"completed", "early_return", "raised"}, c \in BOOLEAN :
           CleanupConnections(b, c)
    \/ \E c \in BOOLEAN : CleanupPool(c)
    \/ PeerInitConnections
    \/ \E o \in {"created", "InvalidPasswordError"} : PeerPoolAttempt(o)
    \/ PeerPoolTest
    \/ PeerCleanupConnections
    \/ PeerCleanupPool

SpecConn == InitConn /\ [][NextConn]_vars

----------------------------------------------------------------------------
(* Claims about init_connections (SpecConn)                                *)

\* C21: a transient connection refusal is retried with exponential backoff
\* (1 s, 2 s) up to 3 attempts in total and then fails with ConnectionError;
\* an authentication failure or missing-database error fails with
\* ConnectionError on the attempt where it occurs: it is the last attempt
\* and no sleep follows it.
C21_PoolRetryPolicy ==
    /\ Len(ic_outcomes) <= 3
    /\ Len(ic_sleeps) <= 2
    /\ \A k \in DOMAIN ic_sleeps : ic_sleeps[k] = Pow2(k - 1)
    /\ \A k \in DOMAIN ic_outcomes :
          /\ (ic_outcomes[k] \in {"InvalidPasswordError",
                                  "InvalidCatalogNameError"})
             => /\ k = Len(ic_outcomes)
                /\ ic_pc = "raised"
                /\ ic_error = ConnectionError
                /\ Len(ic_sleeps) = k - 1
          /\ (ic_outcomes[k] = "CannotConnectNowError" /\ k < 3)
             => Len(ic_sleeps) >= k
          /\ (ic_outcomes[k] = "CannotConnectNowError" /\ k = 3)
             => /\ ic_pc = "raised"
                /\ ic_error = ConnectionError
                /\ ic_sleeps = <<1, 2>>

\* three refusals in a row ended in ConnectionError after sleeps of 1 and 2
C21_Witness ==
    /\ ic_pc = "raised"
    /\ ic_outcomes = <<"CannotConnectNowError", "CannotConnectNowError",
                       "CannotConnectNowError">>
    /\ ic_sleeps = <<1, 2>>
    /\ ic_error = ConnectionError

\* C22: every API client session and every connection pool opened is
\* closed again on every path: once the task that called init_connections
\* has ended (init_connections raised, or the finally block ran after the
\* body completed, returned early or raised) nothing is left open.
C22_ResourcesReleased ==
    (ic_pc \in TaskEnded /\ ic_peer \in {"idle", "raised", "closed"})
        => (session_open = 0 /\ pools_open = 0)

\* what the code guarantees: the resources handed to the caller are closed
\* by its finally block; those opened by a failing init_connections, or by
\* an attempt whose test query failed, stay open
C22_ReturnedHandlesReleased ==
    (ic_pc = "closed") => ~handles

----------------------------------------------------------------------------
(* Part 9: main_analysis_task and the top-level fetch tasks                *)
(* (workflow.py main_analysis_task, fetch_language_repos,                  *)
(* fetch_render_repos, aggregate_results).                                 *)

\* fetch_readme calls that one bulk gather of fetch_language_repos starts
ReadmeFanout == 2

\* how a call of init_connections ends: it returns, raises ValueError
\* (token or DATABASE_URL), raises ConnectionError for an authentication or
\* missing-database error ("auth"), or raises ConnectionError after three
\* refused attempts ("refused")
InitOutcomes == {"ok", "ValueError", "auth", "refused"}

\* the tasks a run in this mode starts
TasksOf(mode) == IF mode = "dev" THEN {"Python"} ELSE RunTasks

TaskSettled(t) == tpc[t] \in {"pending", "ok", "failed", "exit"}
TaskActive(t) == ~TaskSettled(t)

\* variant: the dev path wraps the awaited task like the gather does
TaskFailureEndsRunNever(mode) == FALSE
\* dev mode awaits fetch_language_repos directly; production mode collects
\* the four tasks with gather(return_exceptions=True)
TaskFailureEndsRun(mode) == mode = "dev"

\* the exception a failure of a fetch task is: the ValueError of
\* init_connections, the error of a close() in cleanup_connections (in the
\* task's finally block, or in that of analyze_repo_batch), or another
ErrorOf(cause) ==
    IF cause = "config" THEN "ValueError"
    ELSE IF cause \in {"cleanup", "batch_cleanup"} THEN CloseError
    ELSE TaskException

\* task t ends with an exception: contained by gather, or leaving the run
TaskFails(t, cause) ==
    /\ tpc' = [tpc EXCEPT ![t] = "failed"]
    /\ IF TaskFailureEndsRun(run_mode)
       THEN /\ run_pc' = "raised"
            /\ run_error' = ErrorOf(cause)
            /\ run_cause' = cause
       ELSE UNCHANGED <<run_pc, run_error, run_cause>>

\* task t leaves its try block, returning (cause = None) or with an
\* exception, through 'finally: await cleanup_connections(github_api,
\* db_pool)': when a close() raises there, that exception leaves the task
\* in place of the result or of the first exception
TaskLeaves(t, cause, closed) ==
    IF ~closed THEN TaskFails(t, "cleanup")
    ELSE IF cause = None
    THEN /\ tpc' = [tpc EXCEPT ![t] = "ok"]
         /\ UNCHANGED <<run_pc, run_error, run_cause>>
    ELSE TaskFails(t, cause)

\* task t calls sys.exit(1): SystemExit is not an Exception, it leaves the
\* gather and the run at once
TaskExits(t, cause) ==
    /\ tpc' = [tpc EXCEPT ![t] = "exit"]
    /\ run_pc' = "exited"
    /\ run_error' = "SystemExit"
    /\ run_cause' = cause

connVars == <<ic_calls, ic_pc, ic_env, ic_attempt, ic_outcomes, ic_sleeps,
              ic_error, session_open, pools_open, handles, ic_peer>>
restOfRun == <<batchVars, storeVars, histVars, apiVars, etlVars, connVars,
               now>>

RunStart(mode) ==
    /\ run_pc = "idle"
    /\ run_mode' = mode
    /\ run_pc' = "tasks"
    /\ tpc' = [t \in RunTasks |-> IF t \in TasksOf(mode) THEN "init"
                                  ELSE "pending"]
    /\ UNCHANGED <<readme_inflight, run_summary, run_error, run_cause>>
    /\ UNCHANGED restOfRun

\* init_connections at the start of a fetch task
TaskInit(t, o) ==
    /\ run_pc = "tasks"
    /\ tpc[t] = "init"
    /\ IF o = "ok"
       THEN /\ tpc' = [tpc EXCEPT ![t] = "search"]
            /\ UNCHANGED <<run_pc, run_error, run_cause>>
       ELSE IF o = "ValueError" THEN TaskFails(t, "config")
       ELSE TaskExits(t, o)
    /\ UNCHANGED <<run_mode, readme_inflight, run_summary>>
    /\ UNCHANGED restOfRun

\* search_repositories of a language task, which then starts the bulk
\* gather of fetch_readme calls; fetch_render_repos calls
\* github_api.search_render_ecosystem, a method GitHubAPIClient does not
\* define, so its search always raises (AttributeError).  closed: the
\* close() calls of the finally block return, where the task ends here
TaskSearch(t, o, closed) ==
    /\ run_pc = "tasks"
    /\ tpc[t] = "search"
    /\ o \in {"repos", "empty", "raise"}
    /\ (t = "render_ecosystem") => (o = "raise")
    /\ IF o = "raise"
       THEN /\ TaskLeaves(t, "search", closed)
            /\ UNCHANGED readme_inflight
       ELSE /\ UNCHANGED <<run_pc, run_error, run_cause>>
            /\ IF o = "empty"
               THEN /\ tpc' = [tpc EXCEPT ![t] = "raw_store"]
                    /\ UNCHANGED readme_inflight
               ELSE /\ tpc' = [tpc EXCEPT ![t] = "readmes"]
                    /\ readme_inflight' =
                           [readme_inflight EXCEPT ![t] = ReadmeFanout]
    /\ UNCHANGED <<run_mode, run_summary>>
    /\ UNCHANGED restOfRun

\* one fetch_readme of the bulk gather settles (result or exception)
ReadmeSettle(t) ==
    /\ run_pc = "tasks"
    /\ tpc[t] = "readmes"
    /\ readme_inflight[t] > 0
    /\ readme_inflight' = [readme_inflight EXCEPT ![t] = @ - 1]
    /\ tpc' = [tpc EXCEPT ![t] = IF readme_inflight[t] = 1 THEN "raw_store"
                                 ELSE "readmes"]
    /\ UNCHANGED <<run_mode, run_pc, run_summary, run_error, run_cause>>
    /\ UNCHANGED restOfRun

\* store_raw_repos returns, or raises and the task ends through its
\* finally block
TaskRawStore(t, o, closed) ==
    /\ run_pc = "tasks"
    /\ tpc[t] = "raw_store"
    /\ o \in {"ok", "raise"}
    /\ IF o = "raise" THEN TaskLeaves(t, "raw_store", closed)
       ELSE /\ tpc' = [tpc EXCEPT ![t] = "batch"]
            /\ UNCHANGED <<run_pc, run_error, run_cause>>
    /\ UNCHANGED <<run_mode, readme_inflight, run_summary>>
    /\ UNCHANGED restOfRun

\* how the call of analyze_repo_batch ends: it returns its list (it
\* contains the failures of its tasks), or the cleanup_connections of its
\* own finally block raises
BatchOutcomes == {"returned", "cleanup_raised"}
\* await analyze_repo_batch(...), then the task returns its result, or
\* ends with the exception, through its finally block
TaskBatch(t, o, closed) ==
    /\ run_pc = "tasks"
    /\ tpc[t] = "batch"
    /\ o \in BatchOutcomes
    /\ TaskLeaves(t, IF o = "returned" THEN None ELSE "batch_cleanup", closed)
    /\ UNCHANGED <<run_mode, readme_inflight, run_summary>>
    /\ UNCHANGED restOfRun

\* asyncio.gather(*language_tasks, fetch_render_repos(),
\* return_exceptions=True) returns when every task has a result or an
\* exception
GatherSettled(mode) == \A t \in TasksOf(mode) : tpc[t] \in {"ok", "failed"}

\* the awaited task (dev) or the gather (production) returns
TasksDone ==
    /\ run_pc = "tasks"
    /\ GatherSettled(run_mode)
    /\ run_pc' = "init"
    /\ UNCHANGED <<run_mode, tpc, readme_inflight, run_summary, run_error,
                   run_cause>>
    /\ UNCHANGED restOfRun

\* init_connections of main_analysis_task before the aggregation
RunInit(o) ==
    /\ run_pc = "init"
    /\ o \in InitOutcomes
    /\ IF o = "ok"
       THEN /\ run_pc' = "aggregate"
            /\ UNCHANGED <<run_error, run_cause>>
       ELSE IF o = "ValueError"
       THEN /\ run_pc' = "raised"
            /\ run_error' = "ValueError"
            /\ run_cause' = "config"
       ELSE /\ run_pc' = "exited"
            /\ run_error' = "SystemExit"
            /\ run_cause' = o
    /\ UNCHANGED <<run_mode, tpc, readme_inflight, run_summary>>
    /\ UNCHANGED restOfRun

\* aggregate_results: nothing extracted, rows loaded (row failures are
\* contained by the load loop), or a statement outside the loop raises
AggregateOutcomes == {"empty", "loaded", "row_failures", "raise"}
\* LIMIT 150
extract_limit == 150
\* most rows an extraction returns here
MaxExtracted == 3
RunSummary(n) == [returned |-> TRUE, repos_processed |-> n,
                  execution_time |-> now, success |-> TRUE]

\* n is len(repos), the number of rows the extraction query returned
AggregateResults(o, n) ==
    /\ run_pc = "aggregate"
    /\ o \in AggregateOutcomes
    /\ n \in 0..Min(MaxExtracted, extract_limit)
    /\ (n = 0) <=> (o \in {"empty", "raise"})
    /\ IF o = "raise"
       THEN /\ run_pc' = "raised"
            /\ run_error' = "Exception"
            /\ run_cause' = "aggregate"
            /\ UNCHANGED run_summary
       ELSE /\ run_pc' = "returned"
            /\ run_summary' = RunSummary(n)
            /\ UNCHANGED <<run_error, run_cause>>
    /\ UNCHANGED <<run_mode, tpc, readme_inflight>>
    /\ UNCHANGED restOfRun

InitRunSpec ==
    /\ InitBatch(<<>>, {})
    /\ InitStore
    /\ InitHist
    /\ InitClient
    /\ InitTables
    /\ InitLoad(<<>>)
    /\ InitFn
    /\ InitRun
    /\ now = 0

NextRun ==
    \/ \E m \in {"dev", "prod"} : RunStart(m)
    \/ \E t \in RunTasks, o \in InitOutcomes : TaskInit(t, o)
    \/ \E t \in RunTasks, o \in {"repos", "empty", "raise"},
          closed \in BOOLEAN : TaskSearch(t, o, closed)
    \/ \E t \in RunTasks : ReadmeSettle(t)
    \/ \E t \in RunTasks, o \in {"ok", "raise"}, closed \in BOOLEAN :
          TaskRawStore(t, o, closed)
    \/ \E t \in RunTasks, o \in BatchOutcomes, closed \in BOOLEAN :
          TaskBatch(t, o, closed)
    \/ TasksDone
    \/ \E o \in InitOutcomes : RunInit(o)
    \/ \E o \in AggregateOutcomes, n \in 0..MaxExtracted :
          AggregateResults(o, n)

SpecRun == InitRunSpec /\ [][NextRun]_vars

RunEnded == run_pc \in {"returned", "raised", "exited"}

\* C23: only configuration and authentication errors end a run without a
\* summary; after any other failure the run returns a summary record with
\* a processed count, the elapsed time and a success flag.
C23_OnlyConfigErrorsTerminate ==
    RunEnded =>
        \/ /\ run_pc = "returned"
           /\ run_summary.returned
           /\ run_summary.repos_processed >= 0
           /\ run_summary.success \in BOOLEAN
        \/ /\ run_pc \in {"raised", "exited"}
           /\ run_cause \in {"config", "auth"}

\* what the code guarantees in production mode: a fetch task that fails
\* with an exception does not end the run
C23_ProductionContainsTaskFailures ==
    (run_mode = "prod" /\ run_pc \in {"raised", "exited"})
        => run_cause \in {"config", "auth", "refused", "aggregate"}

\* C29: outside the per-chunk fan-out of analyze_repo_batch nothing runs
\* concurrently: at most one top-level fetch task is under way at a time,
\* and the bulk README fetch has at most one fetch_readme call in flight.
C29_OnlyChunkFanoutConcurrent ==
    /\ Cardinality({t \in RunTasks : TaskActive(t)}) <= 1
    /\ \A t \in RunTasks : readme_inflight[t] <= 1

\* what the code guarantees: dev mode runs one fetch task; the aggregation
\* (extract, load) starts when no fetch task is under way
C29_AggregationAlone ==
    /\ (run_mode = "dev" /\ run_pc # "idle")
       => Cardinality({t \in RunTasks : TaskActive(t)}) <= 1
    /\ (run_pc \in {"init", "aggregate", "returned"})
       => \A t \in RunTasks : ~TaskActive(t)

AggregationPhase == run_pc \in {"init", "aggregate", "returned"}
\* task t ends with an exception in this step: one the gather keeps as its
\* result ("failed"), or the SystemExit of sys.exit(1) ("exit")
EndsWithException(t) ==
    /\ tpc[t] \notin {"failed", "exit"}
    /\ tpc'[t] \in {"failed", "exit"}

\* C31: in production mode the aggregation phase starts only after the
\* three language fetches and the marker-ecosystem fetch have all settled,
\* and an exception raised by any of those tasks leaves the run going, so
\* that the aggregation still runs on what the other tasks staged.
C31_AggregationAfterAllSettled ==
    /\ [](run_mode = "prod" /\ AggregationPhase
            => \A t \in RunTasks : tpc[t] \in {"ok", "failed"})
    /\ [][(run_mode = "prod" /\ \E t \in RunTasks : EndsWithException(t))
           => run_pc' = "tasks"]_vars

\* what the code guarantees: the aggregation starts after all four tasks
\* settled, and an exception of class Exception of a task is kept by the
\* gather as that task's result; the sys.exit(1) of a task whose
\* init_connections raised ConnectionError ends the run without aggregation
C31_ExceptionsOfClassExceptionContained ==
    /\ [](run_mode = "prod" /\ AggregationPhase
            => \A t \in RunTasks : tpc[t] \in {"ok", "failed"})
    /\ [][(run_mode = "prod"
            /\ \E t \in RunTasks : tpc[t] # "failed" /\ tpc'[t] = "failed")
           => run_pc' = "tasks"]_vars

----------------------------------------------------------------------------
(* Part 10: the extraction query of aggregate_results (workflow.py         *)
(* 613-635) between store_in_staging and load_to_analytics_simple          *)

\* WHERE srv.data_quality_score >= 0.70, in hundredths
quality_threshold == 70

\* candidates by quality score (of calculate_data_quality_score on Today):
\* RepoA 0.90, RepoAtThreshold 0.70, RepoBelow 0.69, and RepoAStale, a
\* later fetch of o/a that scores 0.69
RepoAtThreshold == Cand(<<"o", "/", "t">>, "Go", None, -1, Iso(Today - 300),
                        Iso(Today - 20))
RepoBelow == Cand(<<"o", "/", "s">>, "Go", "desc", 30, Iso(Today - 300),
                  Iso(Today - 95))
RepoAStale == [RepoA EXCEPT !.created_at = Iso(Today - 300),
                            !.updated_at = Iso(Today - 95)]
\* a repository of the marker search (language tag 'render', uses_render
\* set by fetch_render_repos) that scores 0.66
RepoMarkerBelow == [RepoBelow EXCEPT !.full_name = <<"o", "/", "m">>,
                                     !.language = "render"]
ExtractInputs ==
    {BuildEnriched(c, FALSE, None) :
        c \in {RepoA, RepoAStale, RepoAtThreshold, RepoBelow}}
    \cup {BuildEnriched(RepoMarkerBelow, TRUE, None),
          BuildEnriched(RepoA, TRUE, None)}

\* the enrichment row store_render_enrichment is called with: o/a with two
\* services, one of them unknown to dim_render_services, and the blueprint
\* button; the other staged names have no enrichment row
EnrichInputs ==
    {EnrichedProject(RepoA.full_name, "official", <<"web", "cron_x">>, TRUE,
                     5, 3)}

\* LEFT JOIN stg_render_enrichment sre ON srv.repo_full_name =
\* sre.repo_full_name: the enrichment row of the name, or NULL columns.
\* A NULL render_services is written as the empty list (the load reads the
\* column through its truth value only) and a NULL score as 0.
NullEnrichment(fn) == EnrichedProject(fn, None, <<>>, FALSE, 0, 0)
JoinedEnrichment(enr, fn) ==
    LET sre == {e \in enr : e.repo_full_name = fn}
    IN  IF sre = {} THEN NullEnrichment(fn) ELSE CHOOSE e \in sre : TRUE
\* the columns the query selects for a staging row
SelectColumns(srv, enr) ==
    LET sre == JoinedEnrichment(enr, srv.repo_full_name)
    IN  [repo_full_name |-> srv.repo_full_name, repo_url |-> srv.repo_url,
         language |-> srv.language, description |-> srv.description,
         stars |-> srv.stars, created_at |-> srv.created_at,
         uses_render |-> srv.uses_render,
         readme_content |-> srv.readme_content,
         data_quality_score |-> srv.data_quality_score,
         render_category |-> sre.render_category,
         render_services |-> sre.render_services,
         render_complexity_score |-> sre.render_complexity_score,
         has_blueprint_button |-> sre.has_blueprint_button]

\* variant: the query without its WHERE clause (extract.py 11-45)
AboveAnyThreshold(srv) == TRUE
\* WHERE srv.data_quality_score >= 0.70
AboveThreshold(srv) == srv.data_quality_score >= quality_threshold

\* the results the query can return on the staging table `rows`: the rows
\* that pass the WHERE clause, ORDER BY stars DESC (rows of equal stars in
\* any order), cut at LIMIT
ExtractionQuery(rows, enr) ==
    LET sel == {srv \in rows : AboveThreshold(srv)}
        n == Min(Cardinality(sel), extract_limit)
    IN  {[k \in 1..n |-> SelectColumns(q[k], enr)] :
            q \in {o \in [1..n -> sel] :
                      /\ \A i, j \in 1..n : i < j =>
                            (o[i] # o[j] /\ o[i].stars >= o[j].stars)
                      /\ \A srv \in sel \ {o[k] : k \in 1..n} :
                            \A i \in 1..n : o[i].stars >= srv.stars}}

\* a task of the run stores an enriched record (store_in_staging); the
\* tasks have settled before aggregate_results starts
ExtractStage(repo) ==
    /\ load_pc = "idle"
    /\ writes < MaxWrites
    /\ writes' = writes + 1
    /\ staging' = store_in_staging(staging, repo, now)
    /\ UNCHANGED <<lastRec, prevRec, prevStaging, latest, first>>
    /\ UNCHANGED <<batchVars, enrichment, apiVars, etlVars, runVars, now>>

\* a task of the run stores the enrichment of a repository it has staged
\* (store_render_enrichment follows store_in_staging)
ExtractEnrich(project) ==
    /\ load_pc = "idle"
    /\ \E srv \in staging : srv.repo_full_name = project.repo_full_name
    /\ enrichment' = store_render_enrichment(enrichment, project, now)
    /\ UNCHANGED <<staging, histVars>>
    /\ UNCHANGED <<batchVars, apiVars, etlVars, runVars, now>>

\* aggregate_results: the extraction query, then the early return on an
\* empty result or load_to_analytics_simple on the extracted rows
AggregateExtract(rows, nextDay, part) ==
    /\ load_pc = "idle"
    /\ rows \in ExtractionQuery(staging, enrichment)
    /\ IF rows = <<>>
       THEN /\ loads < MaxLoads
            /\ run_summary' = RunSummary(0)
            /\ UNCHANGED <<connVars, run_mode, run_pc, tpc, readme_inflight,
                           run_error, run_cause>>
            /\ UNCHANGED <<batchVars, storeVars, histVars, apiVars, etlVars,
                           now>>
       ELSE LoadStart(rows, nextDay, part)

\* load_to_analytics_simple has returned: aggregate_results returns its
\* summary with repos_processed = len(repos)
AggregateReturn ==
    /\ load_pc = "loop"
    /\ load_idx > Len(load_rows)
    /\ load_pc' = "idle"
    /\ run_summary' = RunSummary(Len(load_rows))
    /\ UNCHANGED <<connVars, run_mode, run_pc, tpc, readme_inflight,
                   run_error, run_cause>>
    /\ UNCHANGED <<tableVars, load_rows, load_idx, load_today, load_part,
                   loads, load_attempted, load_failed, load_raised,
                   load_skipped, load_nokey, load_wrote, factsBefore, prevLoad,
                   latestFact, load_last, fnVars>>
    /\ UNCHANGED <<batchVars, storeVars, histVars, apiVars, now>>

InitExtract ==
    /\ InitBatch(<<>>, {})
    /\ InitStore
    /\ InitHist
    /\ InitClient
    /\ InitTables
    /\ InitLoad(<<>>)
    /\ InitRun
    /\ InitFn
    /\ now = 0

NextExtract ==
    \/ \E repo \in ExtractInputs : ExtractStage(repo)
    \/ \E project \in EnrichInputs : ExtractEnrich(project)
    \/ \E rows \in ExtractionQuery(staging, enrichment),
          nextDay \in BOOLEAN :
          AggregateExtract(rows, nextDay, 0)
    \/ \E fail \in FailPoints : LoadRow(fail)
    \/ AggregateReturn

SpecExtract == InitExtract /\ [][NextExtract]_vars

\* the names of the repositories whose dimension or fact rows differ
\* between two states of the tables
NamesOfKeys(dim, keys) ==
    {d.repo_full_name : d \in {e \in dim : e.repo_key \in keys}}
NamesWritten(dim1, facts1, usage1, dim2, facts2, usage2) ==
    {d.repo_full_name : d \in (dim2 \ dim1)}
    \cup NamesOfKeys(dim2, {f.repo_key : f \in (facts2 \ facts1)})
    \cup NamesOfKeys(dim2, {u.repo_key : u \in (usage2 \ usage1)})
StagingRowOf(fn) == {srv \in staging : srv.repo_full_name = fn}

\* C24: every row the load writes to the dimension and fact tables comes
\* from a staging row whose quality score is at least 0.70, and no staging
\* row below the threshold is among the extracted rows.
C24_QualityThresholdOnExtract ==
    /\ [](load_pc = "loop" =>
            \A k \in DOMAIN load_rows :
                /\ load_rows[k].data_quality_score >= quality_threshold
                /\ \E srv \in staging :
                      /\ srv.repo_full_name = load_rows[k].repo_full_name
                      /\ srv.data_quality_score >= quality_threshold
                      /\ srv.data_quality_score
                            = load_rows[k].data_quality_score)
    /\ [][\A fn \in NamesWritten(dim_repositories, fact_repo_snapshots,
                                 fact_render_usage, dim_repositories',
                                 fact_repo_snapshots', fact_render_usage') :
              /\ StagingRowOf(fn) # {}
              /\ \A srv \in StagingRowOf(fn) :
                    srv.data_quality_score >= quality_threshold]_vars
\* a run has loaded the row at the threshold while the table held a row
\* below it, which has no dimension row
C24_Witness ==
    /\ LoadReturned
    /\ \E srv \in staging : srv.data_quality_score = quality_threshold - 1
                            /\ srv.repo_full_name = RepoBelow.full_name
    /\ \E srv \in staging : srv.data_quality_score = quality_threshold
    /\ \E d \in dim_repositories : d.repo_full_name = RepoAtThreshold.full_name
    /\ \A d \in dim_repositories : d.repo_full_name # RepoBelow.full_name
    /\ \A k \in DOMAIN load_rows :
          load_rows[k].repo_full_name # RepoBelow.full_name

\* the usage-marker cohort of the staging table
MarkerCohort(srv) == srv.uses_render \/ srv.language = "render"
ExtractedNames == {load_rows[k].repo_full_name : k \in DOMAIN load_rows}

\* C32: every staging row of the usage-marker cohort is among the extracted
\* rows, whatever its rank by stars, and the extracted rows hold each full
\* name exactly once.
C32_MarkerCohortExtracted ==
    load_pc # "idle" =>
        /\ \A srv \in staging :
              MarkerCohort(srv) => srv.repo_full_name \in ExtractedNames
        /\ \A i, j \in DOMAIN load_rows :
              load_rows[i].repo_full_name = load_rows[j].repo_full_name
                  => i = j

\* what the code guarantees: one query with one WHERE clause for both
\* cohorts, so a marker row is extracted exactly when it passes the quality
\* threshold (fewer than LIMIT rows qualify here), and no name is
\* extracted twice
C32_OneQueryForBothCohorts ==
    load_pc # "idle" =>
        /\ \A srv \in staging :
              srv.repo_full_name \in ExtractedNames
                  <=> srv.data_quality_score >= quality_threshold
        /\ \A i, j \in DOMAIN load_rows :
              load_rows[i].repo_full_name = load_rows[j].repo_full_name
                  => i = j

----------------------------------------------------------------------------
(* Part 11: GitHubAPIClient.search_repos_by_path (github_api.py 238-374)   *)

\* longest list of code-search items
MaxItems == 3

\* the repository object of a code-search item, or of a detail response
RepoData(fn, lang, created, updated, stars) ==
    [full_name |-> fn, language |-> lang, created_at |-> created,
     updated_at |-> updated, stargazers_count |-> stars]
\* an item of the code search: the path of the matched file and the
\* repository it is in
Item(fn, path, lang, created, updated, stars) ==
    [path |-> path, repository |-> RepoData(fn, lang, created, updated, stars)]

MarkerFile == "render.yaml"
\* items: o/a with the file in its root and in a subdirectory, o/b without
\* timestamps (with and without language), o/c without language, o/d with
\* a created_at that does not parse, x (a name without '/') without
\* timestamps, and one without name
ItemChoices ==
    {Item("o/a", MarkerFile, "Go", Iso(50), Iso(95), 5),
     Item("o/a", "sub/render.yaml", "Go", Iso(50), Iso(95), 5),
     Item("o/b", MarkerFile, "Go", NoDate, NoDate, 0),
     Item("o/b", MarkerFile, None, NoDate, NoDate, 0),
     Item("o/c", MarkerFile, None, Iso(90), Iso(99), 9),
     Item("o/d", MarkerFile, "Go", BadDate, Iso(99), 5),
     Item("x", MarkerFile, "Go", NoDate, Iso(99), 7),
     Item(None, MarkerFile, "Go", Iso(50), Iso(95), 3)}
\* what get_repo_details answers for o/b: nothing, an exception, the full
\* record, a record without timestamps
NoRepoData == RepoData(None, None, NoDate, NoDate, 0)
DetailChoices ==
    {[kind |-> "none", repo |-> NoRepoData],
     [kind |-> "raise", repo |-> NoRepoData],
     [kind |-> "repo", repo |-> RepoData("o/b", "Python", Iso(90), Iso(99), 20)],
     [kind |-> "repo", repo |-> RepoData("o/b", None, NoDate, Iso(99), 20)]}
\* the answer of the code search: None, a body without 'items', the items
SearchAnswers ==
    {[kind |-> "none", items |-> <<>>], [kind |-> "no_items", items |-> <<>>]}
    \cup {[kind |-> "items", items |-> q] :
             q \in UNION {[1..n -> ItemChoices] : n \in 0..MaxItems}}
LimitChoices == {1, 2}
LanguageRules == {[require_language |-> TRUE, default_language |-> None],
                  [require_language |-> FALSE, default_language |-> None],
                  [require_language |-> FALSE, default_language |-> "render"]}

\* owner, name = repo_full_name.split('/', 1) raises ValueError
SplitRaises(fn) == fn = "x"
\* get_repo_details(owner, name) for the repository called fn
DetailsOf(a, fn) ==
    IF fn = "o/b" THEN a.detail ELSE [kind |-> "none", repo |-> NoRepoData]

\* the loop over result['items'] from item k on: rs the repos collected so
\* far, seen their names, need the names that lack a timestamp
RECURSIVE CollectItems(_, _, _, _, _)
CollectItems(a, k, seen, rs, need) ==
    IF k > Len(a.result.items) THEN [repos |-> rs, need |-> need]
    ELSE
    LET item == a.result.items[k]
        data == item.repository
        fn == data.full_name
        nolang == ~TruthyStr(data.language)
        repo_data == IF nolang /\ ~a.require_language
                        /\ TruthyStr(a.default_language)
                     THEN [data EXCEPT !.language = a.default_language]
                     ELSE data
    IN  IF nolang /\ a.require_language
        THEN CollectItems(a, k + 1, seen, rs, need)
        ELSE IF TruthyStr(fn) /\ fn \notin seen /\ item.path = a.filename
        THEN LET rs2 == Append(rs, repo_data)
                 need2 == IF ~TruthyDate(repo_data.created_at)
                             \/ ~TruthyDate(repo_data.updated_at)
                          THEN Append(need, fn) ELSE need
             IN  IF Len(rs2) >= a.limit
                 THEN [repos |-> rs2, need |-> need2]
                 ELSE CollectItems(a, k + 1, seen \cup {fn}, rs2, need2)
        ELSE CollectItems(a, k + 1, seen, rs, need)

\* repos[i] = full_details for the first entry called fn, the assigned
\* default language preserved
ReplaceFirst(a, rs, fn, full_details) ==
    LET hits == {i \in DOMAIN rs : rs[i].full_name = fn}
    IN  IF hits = {} THEN rs
        ELSE LET i == CHOOSE h \in hits : \A g \in hits : h <= g
                 kept == rs[i].language
             IN  [rs EXCEPT ![i] =
                    IF TruthyStr(a.default_language)
                       /\ kept = a.default_language
                    THEN [full_details EXCEPT !.language = a.default_language]
                    ELSE full_details]
\* the loop over repos_needing_details from position k on
RECURSIVE BackfillDetails(_, _, _, _)
BackfillDetails(a, need, k, rs) ==
    IF k > Len(need) THEN rs
    ELSE LET fn == need[k]
             d == DetailsOf(a, fn)
         IN  IF SplitRaises(fn) \/ d.kind = "raise"
             THEN BackfillDetails(a, need, k + 1,
                     SelectSeq(rs, LAMBDA r : r.full_name # fn))
             ELSE IF d.kind = "none" THEN BackfillDetails(a, need, k + 1, rs)
             ELSE BackfillDetails(a, need, k + 1,
                                  ReplaceFirst(a, rs, fn, d.repo))

\* variant: no client-side date filter
DroppedByDateNever(a, repo) == FALSE
\* with created_since given: created_at does not parse, or is earlier
DroppedByDate(a, repo) ==
    /\ a.created_since.kind = "iso"
    /\ \/ repo.created_at.kind # "iso"
       \/ repo.created_at.day < a.created_since.day
\* the final validation loop
Validated(a, repo) ==
    /\ TruthyDate(repo.created_at) /\ TruthyDate(repo.updated_at)
    /\ ~DroppedByDate(a, repo)

\* validated_repos.sort(key=stargazers_count, reverse=True): stable
SortByStars(rs) ==
    LET pos(i) == 1 + Cardinality({j \in DOMAIN rs :
                        \/ rs[j].stargazers_count > rs[i].stargazers_count
                        \/ /\ rs[j].stargazers_count = rs[i].stargazers_count
                           /\ j < i})
    IN  [p \in DOMAIN rs |-> rs[CHOOSE i \in DOMAIN rs : pos(i) = p]]

search_repos_by_path(a) ==
    IF a.result.kind # "items" THEN <<>>
    ELSE LET c == CollectItems(a, 1, {}, <<>>, <<>>)
             filled == BackfillDetails(a, c.need, 1, c.repos)
             validated_repos == SelectSeq(filled, LAMBDA r : Validated(a, r))
             sorted == SortByStars(validated_repos)
         IN  SubSeq(sorted, 1, Min(a.limit, Len(sorted)))

SearchApply ==
    /\ ~s_out.done
    /\ s_out' = [done |-> TRUE, repos |-> search_repos_by_path(s_in)]
    /\ UNCHANGED <<q_repo, q_out, r_in, r_out, d_in, d_out, s_in>>
    /\ UNCHANGED <<batchVars, storeVars, histVars, apiVars, runVars, tableVars,
                   loadVars, now>>

InitSearch ==
    /\ InitBatch(<<>>, {})
    /\ InitStore
    /\ InitHist
    /\ InitClient
    /\ InitTables
    /\ InitLoad(<<>>)
    /\ InitRun
    /\ q_repo = <<>>
    /\ q_out = NotApplied
    /\ r_in = <<>>
    /\ r_out = NotApplied
    /\ d_in = <<>>
    /\ d_out = NotApplied
    /\ \E res \in SearchAnswers, d \in DetailChoices, lim \in LimitChoices,
          since \in {NoDate, Iso(60)}, rule \in LanguageRules :
          s_in = [filename |-> MarkerFile, result |-> res, detail |-> d,
                  limit |-> lim, created_since |-> since,
                  require_language |-> rule.require_language,
                  default_language |-> rule.default_language]
    /\ s_out = NotApplied
    /\ now = 0

NextSearch == SearchApply

SpecSearch == InitSearch /\ [][NextSearch]_vars

\* the names of the repositories an item shows the file in the root of
RootNames(a) ==
    {a.result.items[k].repository.full_name :
        k \in {j \in DOMAIN a.result.items :
                  a.result.items[j].path = a.filename}}

\* C25: the returned list has no two entries of the same full name, holds
\* only repositories with the file in their root and with both timestamps,
\* only repositories created at or after created_since when it is given, is
\* sorted by star count in non-increasing order, and has at most `limit`
\* entries.
C25_SearchByPathPostcondition ==
    s_out.done =>
        LET out == s_out.repos
        IN  /\ \A i, j \in DOMAIN out :
                  out[i].full_name = out[j].full_name => i = j
            /\ \A i \in DOMAIN out :
                  /\ out[i].full_name \in RootNames(s_in)
                  /\ TruthyDate(out[i].created_at)
                  /\ TruthyDate(out[i].updated_at)
                  /\ s_in.created_since.kind = "iso" =>
                        /\ out[i].created_at.kind = "iso"
                        /\ out[i].created_at.day >= s_in.created_since.day
            /\ \A i, j \in DOMAIN out :
                  i < j => out[i].stargazers_count >= out[j].stargazers_count
            /\ Len(out) <= s_in.limit
\* o/c matched twice and o/b backfilled by a detail fetch: two entries, the
\* backfilled one first by its stars, with a creation filter in force
C25_Witness ==
    /\ s_out.done
    /\ s_in.created_since = Iso(60)
    /\ Len(s_in.result.items) = 3
    /\ s_in.result.items[1].repository.full_name = "o/c"
    /\ s_in.result.items[2].repository.full_name = "o/b"
    /\ s_in.result.items[3].repository.full_name = "o/c"
    /\ Len(s_out.repos) = 2
    /\ s_out.repos[1].full_name = "o/b"
    /\ s_out.repos[1].stargazers_count = 20
    /\ s_out.repos[2].full_name = "o/c"

\* search_render_projects: search_repos_by_path('render.yaml',
\* require_language=False, default_language='render')
RenderSearch ==
    /\ s_in.filename = MarkerFile
    /\ ~s_in.require_language
    /\ s_in.default_language = "render"
\* the code-search items naming fn
ItemsOf(fn) ==
    {s_in.result.items[k] :
        k \in {j \in DOMAIN s_in.result.items :
                  s_in.result.items[j].repository.full_name = fn}}

\* C37: every repository search_render_projects returns has the language
\* 'render', whatever language the API detected for it and whether or not
\* a detail fetch filled in its record.
C37_EveryResultTaggedRender ==
    (s_out.done /\ RenderSearch) =>
        \A i \in DOMAIN s_out.repos : s_out.repos[i].language = "render"

\* what the code guarantees: a repository the code search reports without
\* language is returned with the language 'render', also after a detail
\* fetch replaced its record; one reported with a language is not retagged
C37_TaggedWhenNoLanguage ==
    (s_out.done /\ RenderSearch) =>
        \A i \in DOMAIN s_out.repos :
            /\ (\A it \in ItemsOf(s_out.repos[i].full_name) :
                    it.path = MarkerFile /\ it.repository.language = None)
               => s_out.repos[i].language = "render"
            /\ (\A it \in ItemsOf(s_out.repos[i].full_name) :
                    it.repository.language # None)
               => s_out.repos[i].language # "render"

----------------------------------------------------------------------------
(* Part 12: load_to_analytics (workflows/etl/load.py), the loader the etl  *)
(* package exports; workflow.py calls load_to_analytics_simple instead     *)

\* a row as transform_and_rank leaves it
RankedRow(row, momentum, overall, inLanguage, count) ==
    row @@ [momentum_score |-> momentum, rank_overall |-> overall,
            rank_in_language |-> inLanguage, service_count |-> count]

\* ranked lists: o/a and o/b; o/a with a new description, o/b unchanged and
\* the Rust repository; o/b alone with another category
EtlInputs ==
    {<<RankedRow(RowA, Fraction(3, 4), 1, 1, 0),
       RankedRow(RowB, Fraction(1, 2), 2, 1, 2)>>,
     <<RankedRow(RowA2, Fraction(7, 8), 1, 1, 0),
       RankedRow(RowB, Fraction(1, 2), 2, 1, 2),
       RankedRow(RowR, Fraction(1, 8), 3, 1, 0)>>,
     <<RankedRow([RowB EXCEPT !.render_category = "community"],
                 Fraction(1, 1), 1, 1, 2)>>}

\* existing['description'] != repo.get('description') or ... : a
\* significant field of the current row differs
NeedsUpdate(existing, row) ==
    \/ existing.description # row.description
    \/ existing.readme_content # row.readme_content
    \/ existing.uses_render # row.uses_render
    \/ existing.render_category # row.render_category

\* INSERT INTO dim_repositories (...) VALUES (..., NOW(), TRUE)
DimVersion(seq, row) ==
    [repo_key |-> seq, repo_full_name |-> row.repo_full_name,
     repo_url |-> row.repo_url, description |-> row.description,
     readme_content |-> row.readme_content, language |-> row.language,
     created_at |-> row.created_at, uses_render |-> row.uses_render,
     render_category |-> row.render_category, is_current |-> TRUE]

\* upsert_dim_repositories (SCD type 2): a new name is inserted; a name
\* whose current row differs in a significant field has that row closed
\* and a new version inserted; else the row is left alone
RECURSIVE upsert_dim_repositories(_, _, _)
upsert_dim_repositories(dim, seq, rows) ==
    IF rows = <<>> THEN [dim |-> dim, seq |-> seq]
    ELSE LET row == Head(rows)
             cur == {d \in dim : d.repo_full_name = row.repo_full_name
                                 /\ d.is_current}
         IN  IF ~TruthySeq(row.repo_full_name)
             THEN upsert_dim_repositories(dim, seq, Tail(rows))
             ELSE IF cur = {}
             THEN upsert_dim_repositories(dim \cup {DimVersion(seq, row)},
                                          seq + 1, Tail(rows))
             ELSE LET existing == CHOOSE d \in cur : TRUE
                  IN  IF NeedsUpdate(existing, row)
                      THEN upsert_dim_repositories(
                               (dim \ {existing})
                               \cup {[existing EXCEPT !.is_current = FALSE],
                                     DimVersion(seq, row)},
                               seq + 1, Tail(rows))
                      ELSE upsert_dim_repositories(dim, seq, Tail(rows))

\* SELECT dr.repo_key, dl.language_key FROM dim_repositories dr JOIN
\* dim_languages dl ON dr.language = dl.language_name WHERE
\* dr.repo_full_name = $1 AND dr.is_current = TRUE
KeysOfCurrent(dim, name) ==
    {d \in dim : /\ d.repo_full_name = name /\ d.is_current
                 /\ LanguageKey(d.language) # NoKey}

\* insert_fact_snapshots: one snapshot of today per row whose current
\* dimension row has a known language; ON CONFLICT (repo_key,
\* snapshot_date) DO UPDATE SET every measure
RECURSIVE insert_fact_snapshots(_, _, _, _)
insert_fact_snapshots(dim, facts, rows, today) ==
    IF rows = <<>> THEN facts
    ELSE LET row == Head(rows)
             found == KeysOfCurrent(dim, row.repo_full_name)
         IN  IF ~TruthySeq(row.repo_full_name) \/ found = {}
             THEN insert_fact_snapshots(dim, facts, Tail(rows), today)
             ELSE LET d == CHOOSE e \in found : TRUE
                      conflict == {f \in facts :
                                      /\ f.repo_key = d.repo_key
                                      /\ f.snapshot_date = today}
                      new == [repo_key |-> d.repo_key,
                              language_key |-> LanguageKey(d.language),
                              snapshot_date |-> today, stars |-> row.stars,
                              momentum_score |-> row.momentum_score,
                              rank_overall |-> row.rank_overall,
                              rank_in_language |-> row.rank_in_language]
                  IN  insert_fact_snapshots(
                          dim,
                          IF conflict = {} THEN facts \cup {new}
                          ELSE (facts \ conflict)
                               \cup {[f EXCEPT
                                         !.stars = row.stars,
                                         !.momentum_score = row.momentum_score,
                                         !.rank_overall = row.rank_overall,
                                         !.rank_in_language =
                                             row.rank_in_language] :
                                     f \in conflict},
                          Tail(rows), today)

\* the loop over render_services of one row: INSERT INTO fact_render_usage
\* ... ON CONFLICT DO NOTHING for every service type with a service key
RECURSIVE InsertUsageOfRow(_, _, _, _, _)
InsertUsageOfRow(usage, rk, today, row, services) ==
    IF services = <<>> THEN usage
    ELSE LET sk == ServiceKey(Head(services))
             conflict == {u \in usage : /\ u.repo_key = rk
                                        /\ u.service_key = sk
                                        /\ u.snapshot_date = today}
             next == IF sk = NoKey \/ conflict # {} THEN usage
                     ELSE usage
                          \cup {[repo_key |-> rk, service_key |-> sk,
                                 snapshot_date |-> today,
                                 service_count |-> row.service_count,
                                 complexity_score |->
                                     row.render_complexity_score,
                                 has_blueprint |-> row.has_blueprint_button]}
         IN  InsertUsageOfRow(next, rk, today, row, Tail(services))

\* insert_render_usage over render_repos = [r for r in repos if
\* r.get('uses_render')]
RECURSIVE insert_render_usage(_, _, _, _)
insert_render_usage(dim, usage, rows, today) ==
    IF rows = <<>> THEN usage
    ELSE LET row == Head(rows)
             rk == RepoKey(dim, row.repo_full_name)
         IN  IF ~row.uses_render \/ ~TruthySeq(row.repo_full_name)
                \/ rk = NoKey
             THEN insert_render_usage(dim, usage, Tail(rows), today)
             ELSE insert_render_usage(
                      dim,
                      InsertUsageOfRow(usage, rk, today, row,
                                       row.render_services),
                      Tail(rows), today)

\* load_to_analytics(repos, db_pool): the three passes inside one
\* transaction, which commits, or rolls back when a statement raises (the
\* exception leaves the function)
LoadToAnalytics(rows, nextDay, commit) ==
    /\ load_pc = "idle"
    /\ loads < MaxLoads
    /\ nextDay => (loads >= 1 /\ load_today = Today)
    /\ loads' = loads + 1
    /\ load_rows' = rows
    /\ load_today' = IF nextDay THEN load_today + 1 ELSE load_today
    /\ load_raised' = ~commit
    /\ IF commit
       THEN LET dims == upsert_dim_repositories(dim_repositories,
                                                repo_key_seq, rows)
            IN  /\ dim_repositories' = dims.dim
                /\ repo_key_seq' = dims.seq
                /\ fact_repo_snapshots' =
                      insert_fact_snapshots(dims.dim, fact_repo_snapshots,
                                            rows, load_today')
                /\ fact_render_usage' =
                      insert_render_usage(dims.dim, fact_render_usage,
                                          rows, load_today')
       ELSE UNCHANGED tableVars
    /\ UNCHANGED <<load_pc, load_idx, load_part, load_attempted, load_failed,
                   load_skipped, load_nokey, load_wrote, factsBefore, prevLoad,
                   latestFact, load_last, fnVars>>
    /\ UNCHANGED <<batchVars, storeVars, histVars, apiVars, runVars, now>>

\* the two loaders on the same tables, one execution after the other
NextEtlLoad ==
    \/ \E rows \in EtlInputs, nextDay \in BOOLEAN, commit \in BOOLEAN :
          LoadToAnalytics(rows, nextDay, commit)
    \/ NextLoad

SpecEtlLoad == InitLoadSpec /\ [][NextEtlLoad]_vars

\* what the etl loader keeps: one current row per name, each fact row and
\* usage row refers to a dimension row, and a call that raised left the
\* tables as they were
EtlLoadConsistent ==
    /\ \A d1, d2 \in dim_repositories :
          /\ (d1.is_current /\ d2.is_current
              /\ d1.repo_full_name = d2.repo_full_name) => d1 = d2
          /\ d1.repo_key = d2.repo_key => d1 = d2
    /\ \A f \in fact_repo_snapshots :
          \E d \in dim_repositories : d.repo_key = f.repo_key
    /\ \A u \in fact_render_usage :
          \E d \in dim_repositories : d.repo_key = u.repo_key

====
